---- MODULE Spec2Model ----
(***************************************************************************)
(* Token lifecycle of the HubSpot OAuth server: the token store            *)
(* (token-store.js in its in-memory-Map and Redis/env variants), the token *)
(* refresher (refreshAccessToken with and without the tenant-binding       *)
(* check) and the endpoints that wrap HubSpot API calls with               *)
(* "get token -> call -> on 401 refresh -> retry" (hubspot-proxy,          *)
(* get-file-metadata, and the schema check run by oauth-callback).         *)
(*                                                                         *)
(* Values.  A portal id is a record [id, str]: id is the number, str says  *)
(* whether the value is a JavaScript string ("111", from a header, a JSON  *)
(* body or an environment variable) or a number (111, hub_id of the        *)
(* provider's JSON response).  id = 0 is a missing value (undefined, "").  *)
(* A token is a positive integer that encodes the portal the provider      *)
(* issued it to and a serial number; 0 is a missing token (undefined).     *)
(* Times are epoch milliseconds; 0 is a missing time.                      *)
(***************************************************************************)
EXTENDS Integers, FiniteSets, Sequences, TLC

VARIABLES
  env,      \* process.env: backend selection, client credentials, single-portal override
  store,    \* the backend's content: cachedTokens (Map) or the Redis keys tokens:<hub_id>
  now,      \* Date.now()
  ticks,    \* number of clock advances so far
  issued,   \* number of token pairs the OAuth provider has issued
  req,      \* the invocation in flight: its position and its local variables
  obs,      \* what the invocation has done so far (calls made, errors seen)
  probe     \* the last direct call of a token-store function and its result

vars == <<env, store, now, ticks, issued, req, obs, probe>>

-----------------------------------------------------------------------------
(* Bounds of the model *)

MaxTicks == 1
MaxIssued == 1
MaxCalls == 2

(* Program constants *)

DefaultExpiresIn == 21600
FiveMinutes == 5 * 60 * 1000
SixHours == 6 * 60 * 60 * 1000

(* Inputs *)

PortalIds == {111, 222}
\* The portal whose tokens were copied into the environment
EnvOwner == CHOOSE i \in PortalIds : \A j \in PortalIds : j <= i
ProviderExpiresIn == 30 * 60        \* expires_in of the provider's token responses, seconds
StartTime == 2 * SixHours
TickSteps == {ProviderExpiresIn * 1000 - FiveMinutes + 1}
Statuses == {200, 401, 429, 500}

-----------------------------------------------------------------------------
(* Values *)

Null == [null |-> TRUE]

NumHub(i) == [id |-> i, str |-> FALSE]
StrHub(i) == [id |-> i, str |-> TRUE]
NoHub == StrHub(0)
EnvVarPortal == StrHub(-1)          \* the literal 'env-var-portal'
Hubs == {NumHub(i) : i \in PortalIds} \cup {StrHub(i) : i \in PortalIds}

\* JavaScript truthiness of a portal id, `!hub_id` being its negation
Truthy(h) == h.id # 0

\* hub_id.toString() and the interpolation `tokens:${hub_id}`
HubToString(h) == [h EXCEPT !.str = TRUE]

\* a || b on tokens, times and numbers, 0 standing for undefined
Or(a, b) == IF a # 0 THEN a ELSE b

\* The n-th token pair the provider issues to a portal; pair 0 is the one that
\* was copied into HUBSPOT_ACCESS_TOKEN / HUBSPOT_REFRESH_TOKEN
AccessTok(owner, n) == owner * 100 + 2 * n
RefreshTok(owner, n) == owner * 100 + 2 * n + 1
Owner(t) == t \div 100

\* The argument of saveTokens: either spelling of each field may be present
TokenInput(a, r, e) ==
  [accessToken |-> a, access_token |-> 0, refreshToken |-> r, refresh_token |-> 0,
   expiresAt |-> e, expires_in |-> 0]

-----------------------------------------------------------------------------
(* Token store: part_004 is the in-memory Map variant, token-store.js the  *)
(* Redis / environment variant.  env.backend selects the deployed one:     *)
(* "map", "redis" (TOKEN_STORAGE_BACKEND=redis with AWS_REDIS_HOST) or     *)
(* "env" (token-store.js with its default backend and no Redis host).      *)

EnvTokensSet == env.accessToken # 0 /\ env.refreshToken # 0

\* An environment record whose default expiry is fixed when the process starts
EnvRecordFromStart(portal, t) ==
  [hub_id |-> portal,
   accessToken |-> env.accessToken,
   refreshToken |-> env.refreshToken,
   expiresAt |-> IF env.expiresAt # 0 THEN env.expiresAt ELSE StartTime + SixHours,
   updatedAt |-> t]

\* The record built from HUBSPOT_ACCESS_TOKEN / HUBSPOT_REFRESH_TOKEN
EnvRecord(portal, t) ==
  [hub_id |-> portal,
   accessToken |-> env.accessToken,
   refreshToken |-> env.refreshToken,
   expiresAt |-> IF env.expiresAt # 0 THEN env.expiresAt ELSE t + SixHours,
   updatedAt |-> t]

\* tokenData with the expiry always computed from the clock
TokenDataFromClock(hub_id, tokens, t) ==
  [hub_id |-> hub_id,
   accessToken |-> Or(tokens.accessToken, tokens.access_token),
   refreshToken |-> Or(tokens.refreshToken, tokens.refresh_token),
   expiresAt |-> t + Or(tokens.expires_in, DefaultExpiresIn) * 1000,
   updatedAt |-> t]

\* tokenData of saveTokens
TokenData(hub_id, tokens, t) ==
  [hub_id |-> hub_id,
   accessToken |-> Or(tokens.accessToken, tokens.access_token),
   refreshToken |-> Or(tokens.refreshToken, tokens.refresh_token),
   expiresAt |-> Or(tokens.expiresAt, t + Or(tokens.expires_in, DefaultExpiresIn) * 1000),
   updatedAt |-> t]

\* A store with one slot for all portals, as before the multi-tenant change
BackendWriteOneSlot(st, hub_id, tokenData, ioFails) ==
  IF env.backend \notin {"map", "redis"} \/ ioFails THEN st
  ELSE [h \in DOMAIN st |-> tokenData]

\* A store that keeps the record it has unless the new one expires later
BackendWriteIfLater(st, hub_id, tokenData, ioFails) ==
  LET key == IF env.backend = "redis" THEN HubToString(hub_id) ELSE hub_id IN
  IF env.backend \notin {"map", "redis"} \/ ioFails THEN st
  ELSE IF st[key] # Null /\ st[key].expiresAt >= tokenData.expiresAt THEN st
  ELSE [st EXCEPT ![key] = tokenData]

\* A store that writes the fields one by one and keeps the refresh token of
\* the record it has
BackendWriteFieldwise(st, hub_id, tokenData, ioFails) ==
  LET key == IF env.backend = "redis" THEN HubToString(hub_id) ELSE hub_id
      merged == IF st[key] = Null THEN tokenData
                ELSE [tokenData EXCEPT !.refreshToken = st[key].refreshToken]
  IN
  IF env.backend \notin {"map", "redis"} \/ ioFails THEN st
  ELSE [st EXCEPT ![key] = merged]

\* What saveTokens writes to the backend; ioFails: client.set rejects
BackendWrite(st, hub_id, tokenData, ioFails) ==
  CASE env.backend = "map" -> [st EXCEPT ![hub_id] = tokenData]
    [] env.backend = "redis" /\ ~ioFails -> [st EXCEPT ![HubToString(hub_id)] = tokenData]
    [] OTHER -> st

\* saveTokens(hub_id, tokens) at time t on backend content st:
\* the error it throws ("none" when it returns), the record it returns, the new content
SaveTokens(st, hub_id, tokens, t, ioFails) ==
  LET tokenData == TokenData(hub_id, tokens, t) IN
  IF ~Truthy(hub_id)
    THEN [error |-> "hub_id is required", record |-> Null, store |-> st]
  ELSE IF tokenData.accessToken = 0    \* tokenData.accessToken.substring(0, 10)
    THEN [error |-> "TypeError", record |-> Null, store |-> st]
  ELSE [error |-> "none", record |-> tokenData,
        store |-> BackendWrite(st, hub_id, tokenData, ioFails)]

\* getTokens of the Map variant
GetTokensMap(st, hub_id, t) ==
  LET envPortalId == IF Truthy(env.portalId) THEN env.portalId ELSE EnvVarPortal IN
  IF Truthy(hub_id)
    THEN IF st[hub_id] # Null THEN st[hub_id]
         ELSE IF EnvTokensSet /\ (envPortalId = hub_id \/ envPortalId = EnvVarPortal)
           THEN EnvRecord(envPortalId, t)
         ELSE Null
  ELSE IF EnvTokensSet THEN EnvRecord(envPortalId, t)
  ELSE Null

\* getTokens of the Redis / environment variant; ioFails: client.get rejects
GetTokensRedis(st, hub_id, t, ioFails) ==
  IF ~Truthy(hub_id) THEN Null
  ELSE IF env.backend = "redis" /\ ~ioFails /\ st[HubToString(hub_id)] # Null
    THEN st[HubToString(hub_id)]
  ELSE IF EnvTokensSet /\ Truthy(env.portalId) /\ env.portalId = HubToString(hub_id)
    THEN EnvRecord(env.portalId, t)
  ELSE Null

GetTokens(st, hub_id, t, ioFails) ==
  IF env.backend = "map" THEN GetTokensMap(st, hub_id, t)
  ELSE GetTokensRedis(st, hub_id, t, ioFails)

\* needsRefresh with the margin's end counted as inside the margin
NeedsRefreshInclusive(tokens, t) ==
  IF tokens = Null THEN TRUE
  ELSE IF tokens.expiresAt = 0 THEN TRUE
  ELSE t >= tokens.expiresAt - FiveMinutes

\* needsRefresh(tokens) at time t
NeedsRefresh(tokens, t) ==
  IF tokens = Null THEN TRUE
  ELSE IF tokens.expiresAt = 0 THEN TRUE
  ELSE t > tokens.expiresAt - FiveMinutes

-----------------------------------------------------------------------------
(* OAuth provider (api.hubapi.com/oauth/v1/token): the environment.        *)
(* A refresh grant answers for the portal that owns the refresh token.     *)

RespKinds == {"ok", "noHubId", "noRefreshToken", "error"}

ProviderResponse(kind, owner, n) ==
  [ok |-> kind # "error",
   access_token |-> IF kind = "error" THEN 0 ELSE AccessTok(owner, n),
   refresh_token |-> IF kind \in {"error", "noRefreshToken"} THEN 0 ELSE RefreshTok(owner, n),
   expires_in |-> IF kind = "error" THEN 0 ELSE ProviderExpiresIn,
   hub_id |-> IF kind \in {"error", "noHubId"} THEN NoHub ELSE NumHub(owner),
   message |-> IF kind = "error" THEN "BAD_REFRESH_TOKEN" ELSE "",
   statusText |-> IF kind = "error" THEN "Bad Request" ELSE "OK"]

-----------------------------------------------------------------------------
(* Token refresher *)

\* const tokenToUse = refreshToken || process.env.HUBSPOT_REFRESH_TOKEN
TokenToUse(refreshToken) == Or(refreshToken, env.refreshToken)

\* A precheck that looks at the refresh token only
RefreshPrecheckTokenOnly(refreshToken) ==
  IF TokenToUse(refreshToken) = 0 THEN "No refresh token available" ELSE "none"

\* The errors refreshAccessToken throws before it calls the token endpoint
RefreshPrecheck(refreshToken) ==
  IF TokenToUse(refreshToken) = 0 THEN "No refresh token available"
  ELSE IF ~env.clientCreds THEN "Missing CLIENT_ID or CLIENT_SECRET"
  ELSE "none"

RefreshFailure(error, called, st) ==
  [error |-> error, message |-> "", called |-> called, saved |-> FALSE,
   savedUnder |-> NoHub, tokens |-> Null, store |-> st]

\* tokens.message || response.statusText
ProviderMessage(resp) == IF resp.message # "" THEN resp.message ELSE resp.statusText

\* throw new Error(`Failed to refresh token: ${tokens.message || response.statusText}`)
RefreshRefused(resp, st) ==
  [RefreshFailure("Failed to refresh token", TRUE, st) EXCEPT !.message = ProviderMessage(resp)]

\* try { await saveTokens(key, newTokenData) } catch { log }; return newTokenData
RefreshCommit(st, key, newTokenData, t, ioFails) ==
  [error |-> "none", message |-> "", called |-> TRUE, saved |-> TRUE, savedUnder |-> key,
   tokens |-> newTokenData,
   store |-> SaveTokens(st, key,
                        TokenInput(newTokenData.accessToken, newTokenData.refreshToken,
                                   newTokenData.expiresAt),
                        t, ioFails).store]

\* A refresh that stores the answer's refresh_token as it is
RefreshDropsSentToken(st, hub_id, refreshToken, resp, t, ioFails) ==
  LET pre == RefreshPrecheck(refreshToken) IN
  IF pre # "none" THEN RefreshFailure(pre, FALSE, st)
  ELSE IF ~resp.ok THEN RefreshRefused(resp, st)
  ELSE RefreshCommit(st, hub_id,
         [accessToken |-> resp.access_token,
          refreshToken |-> resp.refresh_token,
          expiresAt |-> t + resp.expires_in * 1000],
         t, ioFails)

\* A refresh that does not look at the status of the token endpoint's answer
RefreshIgnoresStatus(st, hub_id, refreshToken, resp, t, ioFails) ==
  LET pre == RefreshPrecheck(refreshToken) IN
  IF pre # "none" THEN RefreshFailure(pre, FALSE, st)
  ELSE RefreshCommit(st, hub_id,
         [accessToken |-> resp.access_token,
          refreshToken |-> Or(resp.refresh_token, TokenToUse(refreshToken)),
          expiresAt |-> t + resp.expires_in * 1000],
         t, ioFails)

\* refreshAccessToken(hub_id, refreshToken) of hubspot-proxy, update-statement-record
\* and create-schema: no check of the response's hub_id.  resp is the token
\* endpoint's answer, read only when the call is made.
RefreshAccessToken(st, hub_id, refreshToken, resp, t, ioFails) ==
  LET pre == RefreshPrecheck(refreshToken) IN
  IF pre # "none" THEN RefreshFailure(pre, FALSE, st)
  ELSE IF ~resp.ok THEN RefreshRefused(resp, st)
  ELSE RefreshCommit(st, hub_id,
         [accessToken |-> resp.access_token,
          refreshToken |-> Or(resp.refresh_token, TokenToUse(refreshToken)),
          expiresAt |-> t + resp.expires_in * 1000],
         t, ioFails)

\* actualHubId && requestedHubId && actualHubId !== requestedHubId
HubIdMismatch(actual, requested) ==
  /\ Truthy(actual)
  /\ Truthy(requested)
  /\ HubToString(actual) # HubToString(requested)

\* The checked refresh with its hub_id comparison left out
RefreshWithoutHubIdCheck(st, hub_id, refreshToken, resp, t, ioFails) ==
  RefreshAccessToken(st, hub_id, refreshToken, resp, t, ioFails)

\* refreshAccessToken(hub_id, refreshToken) of get-file-metadata and
\* create-statement-record: with the check of the response's hub_id
RefreshAccessTokenChecked(st, hub_id, refreshToken, resp, t, ioFails) ==
  LET pre == RefreshPrecheck(refreshToken)
      actualHubId == IF Truthy(resp.hub_id) THEN HubToString(resp.hub_id) ELSE NoHub
      key == IF Truthy(actualHubId) THEN actualHubId ELSE hub_id
  IN
  IF pre # "none" THEN RefreshFailure(pre, FALSE, st)
  ELSE IF ~resp.ok THEN RefreshRefused(resp, st)
  ELSE IF HubIdMismatch(resp.hub_id, hub_id) THEN RefreshFailure("Token mismatch", TRUE, st)
  ELSE RefreshCommit(st, key,
         [accessToken |-> resp.access_token,
          refreshToken |-> Or(resp.refresh_token, TokenToUse(refreshToken)),
          expiresAt |-> t + resp.expires_in * 1000],
         t, ioFails)

\* Which refreshAccessToken an endpoint's module defines
Checked(kind) == kind = "filemeta"

Refresh(kind, st, hub_id, refreshToken, resp, t, ioFails) ==
  IF Checked(kind) THEN RefreshAccessTokenChecked(st, hub_id, refreshToken, resp, t, ioFails)
  ELSE RefreshAccessToken(st, hub_id, refreshToken, resp, t, ioFails)

-----------------------------------------------------------------------------
(* Endpoints.  kind "proxy" is hubspot-proxy (part_008), "filemeta" is     *)
(* get-file-metadata (part_000), "callback" is oauth-callback followed by  *)
(* the schema check of create-schema.js that it runs after saving.         *)

Kinds == {"proxy", "filemeta", "callback"}

Result(statusCode, message) == [statusCode |-> statusCode, message |-> message]
NoResult == Result(0, "none")
NeedsAuth == Result(401, "No access token available")

IdleReq ==
  [pc |-> "idle", kind |-> "none", hub_id |-> NoHub, path |-> FALSE,
   accessToken |-> 0, refreshToken |-> 0, status |-> 0]

\* The handler has returned: its local variables are gone
Done(r) == [IdleReq EXCEPT !.pc = "done", !.kind = r.kind, !.hub_id = r.hub_id]

NoRefresh ==
  [checked |-> FALSE, requested |-> NoHub, reported |-> NoHub, issued |-> 0,
   error |-> "none", saved |-> FALSE, savedUnder |-> NoHub]

\* An entry of the invocation's log of outside calls: "exchange" (val: hub id
\* of the answer, 0 without one, -1 when refused),
\* "call" and "retry" (val: the API's status), "refresh" (val: the
\* access token issued, 0 if refused), "save" (val: the access token saved)
Event(ev, val) == [ev |-> ev, val |-> val]

FreshObs ==
  [nRefresh |-> 0, nApi |-> 0, sent |-> 0, refresh |-> NoRefresh,
   proactive |-> "none", mismatch |-> FALSE, result |-> NoResult,
   source |-> "none", log |-> <<>>]

\* The store-level calls recorded in probe: none so far
NoSave == [hub_id |-> NoHub, input |-> Null, at |-> 0, io |-> FALSE,
           error |-> "no call", record |-> Null]

FirstProbe ==
  [op |-> "none", n |-> 0, hub_id |-> NoHub, input |-> Null, at |-> 0, io |-> FALSE,
   error |-> "none", record |-> Null, last |-> NoSave]

\* getAccessToken up to its decision: use a token, refresh first, or fall back
GetAccessToken(tokens, t) ==
  IF tokens # Null /\ tokens.accessToken # 0
    THEN IF NeedsRefresh(tokens, t)
           THEN [next |-> "refresh", token |-> 0, refreshToken |-> tokens.refreshToken]
           ELSE [next |-> "use", token |-> tokens.accessToken, refreshToken |-> 0]
  ELSE [next |-> "fallback", token |-> 0, refreshToken |-> 0]

\* The end of getAccessToken, also reached from its catch block:
\* process.env.HUBSPOT_ACCESS_TOKEN, or null
EnvFallback == env.accessToken

\* What the handler does with the value getAccessToken returned
AfterToken(kind, path, token) ==
  CASE kind = "callback" /\ token = 0 -> [pc |-> "done", result |-> Result(302, "redirect")]
    [] kind # "callback" /\ token = 0 -> [pc |-> "done", result |-> NeedsAuth]
    [] kind = "proxy" /\ token # 0 /\ ~path ->
         [pc |-> "done", result |-> Result(400, "Missing x-requested-path header")]
    [] OTHER -> [pc |-> "call", result |-> NoResult]

\* Whether the endpoint refreshes and retries after a 401
RetriesOn401(kind) == kind \in {"proxy", "filemeta"}

\* A callback that fails the installation when the schema lookup fails
ApiResultFailsInstall(kind, status) ==
  CASE kind = "proxy" -> Result(status, "proxied")
    [] kind = "filemeta" /\ status = 200 -> Result(200, "success")
    [] kind = "filemeta" /\ status # 200 -> Result(status, "Failed to fetch file metadata")
    [] kind = "callback" /\ status # 200 -> Result(500, "schema check failed")
    [] OTHER -> Result(302, "redirect")

\* The handler's response once the HubSpot API has answered with `status`
ApiResult(kind, status) ==
  CASE kind = "proxy" -> Result(status, "proxied")
    [] kind = "filemeta" /\ status = 200 -> Result(200, "success")
    [] kind = "filemeta" /\ status # 200 -> Result(status, "Failed to fetch file metadata")
    [] OTHER -> Result(302, "redirect")

\* A handler that takes every error status of the first call for an expired token
AfterCallRefreshesOnError(kind, status, attempt) ==
  IF status >= 400 /\ attempt = 1 /\ RetriesOn401(kind) THEN "refresh401" ELSE "done"

\* A handler that refreshes after every 401, the retry's included
AfterCallAlwaysRefreshes(kind, status, attempt) ==
  IF status = 401 /\ RetriesOn401(kind) THEN "refresh401" ELSE "done"

\* Where the handler goes after the HubSpot API answered its attempt-th call
AfterCall(kind, status, attempt) ==
  IF status = 401 /\ attempt = 1 /\ RetriesOn401(kind) THEN "refresh401" ELSE "done"

-----------------------------------------------------------------------------
(* Initial state: a fresh process. The environment is fixed at start-up.   *)

EnvOverrides ==
  {[accessToken |-> 0, refreshToken |-> 0, portalId |-> NoHub, expiresAt |-> 0]}
  \cup
  {[accessToken |-> AccessTok(EnvOwner, 0), refreshToken |-> RefreshTok(EnvOwner, 0),
    portalId |-> p, expiresAt |-> e] :
      p \in {NoHub} \cup {StrHub(i) : i \in PortalIds}, e \in {0, StartTime - 1000}}

EnvConfigs ==
  {[backend |-> b, clientCreds |-> c, accessToken |-> o.accessToken,
    refreshToken |-> o.refreshToken, portalId |-> o.portalId, expiresAt |-> o.expiresAt] :
      b \in {"map", "redis", "env"}, c \in BOOLEAN, o \in EnvOverrides}

IoChoices == IF env.backend = "redis" THEN BOOLEAN ELSE {FALSE}

Init ==
  /\ env \in EnvConfigs
  /\ store = [h \in Hubs |-> Null]
  /\ now = StartTime
  /\ ticks = 0
  /\ issued = 0
  /\ req = IdleReq
  /\ obs = FreshObs
  /\ probe = FirstProbe

\* Date.now() advances between two invocations (an invocation is short
\* compared with the lifetime of a token)
Tick ==
  /\ req.pc \in {"idle", "done"}
  /\ ticks < MaxTicks
  /\ \E d \in TickSteps : now' = now + d
  /\ ticks' = ticks + 1
  /\ UNCHANGED <<env, store, issued, req, obs, probe>>

\* hubspot-proxy handler up to getAccessToken: X-Hub-Id is a header, a string
BeginProxy ==
  /\ req.pc \in {"idle", "done"}
  /\ \E hub \in {NoHub} \cup {StrHub(i) : i \in PortalIds}, path \in BOOLEAN :
       IF ~Truthy(hub)
         THEN /\ req' = [IdleReq EXCEPT !.pc = "done", !.kind = "proxy"]
              /\ obs' = [FreshObs EXCEPT !.result = Result(400, "hub_id is required")]
         ELSE /\ req' = [IdleReq EXCEPT !.pc = "acquire", !.kind = "proxy",
                                        !.hub_id = hub, !.path = path]
              /\ obs' = FreshObs
  /\ UNCHANGED <<env, store, now, ticks, issued, probe>>

\* get-file-metadata handler up to getAccessToken: hub_id is a field of the
\* JSON body, a string or a number
BeginFileMeta ==
  /\ req.pc \in {"idle", "done"}
  /\ \E hub \in {NoHub} \cup Hubs :
       IF ~Truthy(hub)
         THEN /\ req' = [IdleReq EXCEPT !.pc = "done", !.kind = "filemeta"]
              /\ obs' = [FreshObs EXCEPT !.result = Result(400, "hub_id is required")]
         ELSE /\ req' = [IdleReq EXCEPT !.pc = "acquire", !.kind = "filemeta",
                                        !.hub_id = hub, !.path = TRUE]
              /\ obs' = FreshObs
  /\ UNCHANGED <<env, store, now, ticks, issued, probe>>

\* oauth-callback handler up to exchangeForTokens
BeginCallback ==
  /\ req.pc \in {"idle", "done"}
  /\ \E hasCode \in BOOLEAN :
       LET r == [IdleReq EXCEPT !.kind = "callback", !.path = TRUE] IN
       IF ~env.clientCreds
         THEN /\ req' = Done(r)
              /\ obs' = [FreshObs EXCEPT
                            !.result = Result(500, "Missing CLIENT_ID or CLIENT_SECRET")]
       ELSE IF ~hasCode
         THEN /\ req' = Done(r)
              /\ obs' = [FreshObs EXCEPT
                            !.result = Result(400, "No authorization code received")]
       ELSE /\ req' = [r EXCEPT !.pc = "exchange"]
            /\ obs' = FreshObs
  /\ UNCHANGED <<env, store, now, ticks, issued, probe>>

\* A callback that calls saveTokens before it looks at the hub_id of the answer
ExchangeSavesFirst ==
  /\ req.pc = "exchange"
  /\ \E rk \in RespKinds \ {"noRefreshToken"}, owner \in PortalIds, ioFails \in IoChoices :
       LET resp == ProviderResponse(rk, owner, issued + 1)
           save == SaveTokens(store, resp.hub_id,
                              [accessToken |-> 0, access_token |-> resp.access_token,
                               refreshToken |-> 0, refresh_token |-> resp.refresh_token,
                               expiresAt |-> 0, expires_in |-> resp.expires_in],
                              now, ioFails)
       IN
       /\ resp.ok => issued < MaxIssued
       /\ issued' = IF resp.ok THEN issued + 1 ELSE issued
       /\ IF ~resp.ok
            THEN /\ req' = Done(req)
                 /\ obs' = [obs EXCEPT !.result = Result(400, "OAuth Error"),
                                       !.log = <<Event("exchange", -1)>>]
                 /\ store' = store
          ELSE IF save.error # "none"
            THEN /\ req' = Done(req)
                 /\ obs' = [obs EXCEPT !.result = Result(500, save.error),
                                       !.log = <<Event("exchange", resp.hub_id.id),
                                                 Event("save", 0)>>]
                 /\ store' = store
          ELSE /\ req' = [req EXCEPT !.pc = "acquire", !.hub_id = resp.hub_id]
               /\ obs' = [obs EXCEPT !.log = <<Event("exchange", resp.hub_id.id),
                                               Event("save", save.record.accessToken)>>]
               /\ store' = save.store
  /\ UNCHANGED <<env, now, ticks, probe>>

\* exchangeForTokens, then saveTokens(tokens.hub_id, tokens): the handler has no
\* try block, an error thrown by saveTokens ends the invocation
Exchange ==
  /\ req.pc = "exchange"
  /\ \E rk \in RespKinds \ {"noRefreshToken"}, owner \in PortalIds, ioFails \in IoChoices :
       LET resp == ProviderResponse(rk, owner, issued + 1)
           save == SaveTokens(store, resp.hub_id,
                              [accessToken |-> 0, access_token |-> resp.access_token,
                               refreshToken |-> 0, refresh_token |-> resp.refresh_token,
                               expiresAt |-> 0, expires_in |-> resp.expires_in],
                              now, ioFails)
       IN
       /\ resp.ok => issued < MaxIssued
       /\ issued' = IF resp.ok THEN issued + 1 ELSE issued
       /\ IF ~resp.ok
            THEN /\ req' = Done(req)
                 /\ obs' = [obs EXCEPT !.result = Result(400, "OAuth Error"),
                                       !.log = <<Event("exchange", -1)>>]
                 /\ store' = store
          ELSE IF ~Truthy(resp.hub_id)
            THEN /\ req' = Done(req)
                 /\ obs' = [obs EXCEPT
                               !.result = Result(500, "Missing hub_id in OAuth response"),
                               !.log = <<Event("exchange", resp.hub_id.id)>>]
                 /\ store' = store
          ELSE IF save.error # "none"
            THEN /\ req' = Done(req)
                 /\ obs' = [obs EXCEPT !.result = Result(500, save.error),
                                       !.log = <<Event("exchange", resp.hub_id.id)>>]
                 /\ store' = store
          ELSE /\ req' = [req EXCEPT !.pc = "acquire", !.hub_id = resp.hub_id]
               /\ obs' = [obs EXCEPT !.log = <<Event("exchange", resp.hub_id.id),
                                               Event("save", save.record.accessToken)>>]
               /\ store' = save.store
  /\ UNCHANGED <<env, now, ticks, probe>>

\* getAccessToken(hub_id) up to the point where it returns or calls refreshAccessToken
Acquire ==
  /\ req.pc = "acquire"
  /\ \E ioFails \in IoChoices :
       LET d == GetAccessToken(GetTokens(store, req.hub_id, now, ioFails), now)
           token == IF d.next = "use" THEN d.token ELSE EnvFallback
           a == AfterToken(req.kind, req.path, token)
       IN
       IF d.next = "refresh"
         THEN /\ req' = [req EXCEPT !.pc = "refresh", !.refreshToken = d.refreshToken]
              /\ obs' = [obs EXCEPT !.source = "refreshed"]
         ELSE /\ req' = IF a.pc = "done" THEN Done(req)
                 ELSE [req EXCEPT !.pc = a.pc, !.accessToken = token]
              /\ obs' = [obs EXCEPT !.result = a.result,
                                    !.source = IF d.next = "use" THEN "stored"
                                               ELSE IF token # 0 THEN "env" ELSE "none"]
  /\ UNCHANGED <<env, store, now, ticks, issued, probe>>

ObsAfterRefresh(o, kind, hub_id, resp, r, proactive) ==
  [o EXCEPT
     !.nRefresh = IF r.called THEN @ + 1 ELSE @,
     !.refresh = [checked |-> Checked(kind), requested |-> hub_id,
                  reported |-> IF r.called THEN resp.hub_id ELSE NoHub,
                  issued |-> IF r.called THEN resp.access_token ELSE 0,
                  error |-> r.error, saved |-> r.saved, savedUnder |-> r.savedUnder],
     !.proactive = IF ~proactive THEN @ ELSE IF r.error = "none" THEN "ok" ELSE r.error,
     !.mismatch = @ \/ r.error = "Token mismatch",
     !.source = IF ~proactive THEN @ ELSE IF r.error = "none" THEN "refreshed"
                ELSE IF EnvFallback # 0 THEN "env" ELSE "none",
     !.log = @ \o (IF r.called THEN <<Event("refresh", IF r.error = "none" THEN resp.access_token ELSE 0)>>
                   ELSE <<>>)
               \o (IF r.saved THEN <<Event("save", r.tokens.accessToken)>> ELSE <<>>)]

\* The refreshAccessToken call of getAccessToken, its catch block and the fallback
ProactiveRefresh ==
  /\ req.pc = "refresh"
  /\ \E rk \in RespKinds, ioFails \in IoChoices :
       LET resp == ProviderResponse(rk, Owner(TokenToUse(req.refreshToken)), issued + 1)
           r == Refresh(req.kind, store, req.hub_id, req.refreshToken, resp, now, ioFails)
           token == IF r.error = "none" THEN r.tokens.accessToken ELSE EnvFallback
           a == AfterToken(req.kind, req.path, token)
       IN
       /\ (r.called /\ resp.ok) => issued < MaxIssued
       /\ issued' = IF r.called /\ resp.ok THEN issued + 1 ELSE issued
       /\ store' = r.store
       /\ req' = IF a.pc = "done" THEN Done(req)
                 ELSE [req EXCEPT !.pc = a.pc, !.accessToken = token]
       /\ obs' = [ObsAfterRefresh(obs, req.kind, req.hub_id, resp, r, TRUE)
                    EXCEPT !.result = a.result]
  /\ UNCHANGED <<env, now, ticks, probe>>

\* The first fetch of the HubSpot API, with Authorization: Bearer <accessToken>
Call ==
  /\ req.pc = "call"
  /\ \E status \in Statuses :
       LET pc == AfterCall(req.kind, status, 1) IN
       /\ req' = IF pc = "done" THEN Done(req)
                 ELSE [req EXCEPT !.pc = pc, !.status = status]
       /\ obs' = [obs EXCEPT !.nApi = @ + 1, !.sent = req.accessToken,
                             !.log = Append(@, Event("call", status)),
                             !.result = IF pc = "done" THEN ApiResult(req.kind, status)
                                        ELSE NoResult]
  /\ UNCHANGED <<env, store, now, ticks, issued, probe>>

\* if (response.status === 401) { try { getTokens; refreshAccessToken } catch { log } }
Refresh401 ==
  /\ req.pc = "refresh401"
  /\ \E ioRead \in IoChoices, rk \in RespKinds, ioFails \in IoChoices :
       LET tokens == GetTokens(store, req.hub_id, now, ioRead)
           usable == tokens # Null /\ tokens.refreshToken # 0
           refreshToken == IF usable THEN tokens.refreshToken ELSE 0
           resp == ProviderResponse(rk, Owner(TokenToUse(refreshToken)), issued + 1)
           r == Refresh(req.kind, store, req.hub_id, refreshToken, resp, now, ioFails)
       IN
       IF usable
         THEN /\ (r.called /\ resp.ok) => issued < MaxIssued
              /\ issued' = IF r.called /\ resp.ok THEN issued + 1 ELSE issued
              /\ store' = r.store
              /\ IF r.error = "none"
                   THEN /\ req' = [req EXCEPT !.pc = "retry",
                                              !.accessToken = r.tokens.accessToken]
                        /\ obs' = ObsAfterRefresh(obs, req.kind, req.hub_id, resp, r, FALSE)
                   ELSE /\ req' = Done(req)
                        /\ obs' = [ObsAfterRefresh(obs, req.kind, req.hub_id, resp, r, FALSE)
                                     EXCEPT !.result = ApiResult(req.kind, req.status)]
         ELSE /\ req' = Done(req)
              /\ obs' = [obs EXCEPT !.result = ApiResult(req.kind, req.status)]
              /\ UNCHANGED <<store, issued>>
  /\ UNCHANGED <<env, now, ticks, probe>>

\* A retry whose 401 sends the handler back to its first fetch
RetryLoopsToCall ==
  /\ req.pc = "retry"
  /\ \E status \in Statuses :
       LET again == status = 401 /\ RetriesOn401(req.kind) IN
       /\ req' = IF again THEN [req EXCEPT !.pc = "call", !.status = status]
                 ELSE Done(req)
       /\ obs' = [obs EXCEPT !.nApi = @ + 1, !.sent = req.accessToken,
                             !.log = Append(@, Event("retry", status)),
                             !.result = IF again THEN NoResult
                                        ELSE ApiResult(req.kind, status)]
  /\ UNCHANGED <<env, store, now, ticks, issued, probe>>

\* The second fetch, with the refreshed token
Retry ==
  /\ req.pc = "retry"
  /\ \E status \in Statuses :
       LET pc == AfterCall(req.kind, status, 2) IN
       /\ req' = IF pc = "done" THEN Done(req)
                 ELSE [req EXCEPT !.pc = pc, !.status = status]
       /\ obs' = [obs EXCEPT !.nApi = @ + 1, !.sent = req.accessToken,
                             !.log = Append(@, Event("retry", status)),
                             !.result = IF pc = "done" THEN ApiResult(req.kind, status)
                                        ELSE NoResult]
  /\ UNCHANGED <<env, store, now, ticks, issued, probe>>

Next ==
  \/ Tick
  \/ BeginProxy
  \/ BeginFileMeta
  \/ BeginCallback
  \/ Exchange
  \/ Acquire
  \/ ProactiveRefresh
  \/ Call
  \/ Refresh401
  \/ Retry

Spec == Init /\ [][Next]_vars

-----------------------------------------------------------------------------
(* Properties of the endpoints                                             *)

\* The step is a call of the token endpoint by a checked refreshAccessToken
\* whose response names a hub other than the requested one
CheckedRefreshOfOtherHub ==
  /\ obs'.nRefresh = obs.nRefresh + 1
  /\ obs'.refresh.checked
  /\ Truthy(obs'.refresh.reported)
  /\ obs'.refresh.reported.id # obs'.refresh.requested.id

\* C1: when the provider's response to a checked refresh reports a hub_id
\* other than the requested one, the refresh fails with a token mismatch,
\* saveTokens is not called and the store is left as it was
C1_MismatchRejected ==
  [][CheckedRefreshOfOtherHub =>
       /\ obs'.refresh.error = "Token mismatch"
       /\ ~obs'.refresh.saved
       /\ store' = store]_vars

\* A checked refresh for one portal got another portal's tokens and refused them
C1_Witness ==
  /\ obs.refresh.checked
  /\ obs.refresh.error = "Token mismatch"
  /\ obs.refresh.issued # 0
  /\ obs.refresh.reported.id # obs.refresh.requested.id

\* C2: after a refresh by any endpoint, no record of the store holds under
\* portal T the tokens of a provider response that reported another hub_id
C2_NoForeignTokensStored ==
  \A k \in Hubs :
    (store[k] # Null /\ obs.refresh.saved /\ Truthy(obs.refresh.reported)
       /\ store[k].accessToken = obs.refresh.issued)
    => obs.refresh.reported.id = k.id

\* C3 as stated: one invocation of the proxy calls the token endpoint at most
\* once, proactive and 401-triggered refreshes together, and the HubSpot API
\* at most twice
C3_AtMostOneRefresh ==
  req.kind = "proxy" => (obs.nRefresh <= 1 /\ obs.nApi <= 2)

\* C3 amended: one invocation of the proxy calls the token endpoint at most
\* twice, once before the first API call and once after a 401, and the
\* HubSpot API at most twice
C3_AtMostTwoRefreshes ==
  req.kind = "proxy" => (obs.nRefresh <= 2 /\ obs.nApi <= 2)

\* A proxy invocation that refreshed before its call, got a 401, refreshed
\* again and retried
C3_Witness ==
  req.kind = "proxy" /\ obs.nRefresh = 2 /\ obs.nApi = 2

\* C5: a token from the environment that is configured for another portal is
\* never the bearer token of an API request made for portal T
C5_EnvTokenOnlyForItsPortal ==
  (obs.nApi > 0 /\ obs.sent # 0 /\ obs.sent = env.accessToken /\ Truthy(env.portalId))
    => env.portalId.id = req.hub_id.id

\* C9: when the stored record needs a refresh and the refresh fails, the
\* invocation makes no API call and answers that authentication is needed
C9_FailedRefreshIsUnauthenticated ==
  (req.kind \in {"proxy", "filemeta"} /\ obs.proactive \notin {"none", "ok"})
    => /\ obs.nApi = 0
       /\ req.pc = "done" => obs.result = NeedsAuth

\* C10: an invocation in which a refresh failed with a token mismatch answers
\* with a result that names the mismatch, not with the plain 401 results
C10_MismatchIsReported ==
  (req.pc = "done" /\ obs.mismatch) => obs.result.message = "Token mismatch"

\* The invocation has returned after getAccessToken took the stored, fresh
\* access token and the HubSpot API answered the first call with `status`
FreshTokenFirstCall(kind, status) ==
  /\ req.kind = kind
  /\ req.pc = "done"
  /\ obs.source = "stored"
  /\ Len(obs.log) >= 1
  /\ obs.log[1] = Event("call", status)

\* C11: when the stored token is fresh and the HubSpot API answers the first
\* call with a status other than 401, the proxy makes exactly one API call
\* and no refresh call and returns that status
C11_NonAuthStatusIsFinal ==
  \A status \in Statuses \ {401} :
    FreshTokenFirstCall("proxy", status) =>
      /\ obs.nApi = 1
      /\ obs.nRefresh = 0
      /\ obs.log = <<Event("call", status)>>
      /\ obs.result.statusCode = status

\* The proxy passed a 429 on after one call with the stored token
C11_Witness ==
  /\ FreshTokenFirstCall("proxy", 429)
  /\ obs.nApi = 1
  /\ obs.result.statusCode = 429

\* The refresh that followed the first call succeeded
RefreshedAfterFirstCall ==
  /\ Len(obs.log) >= 2
  /\ obs.log[2].ev = "refresh"
  /\ obs.log[2].val # 0

\* C12: when the stored token looks fresh, the first API call is answered 401
\* and the refresh succeeds, the endpoint makes exactly one refresh, saves,
\* then retries exactly once with the newly issued access token and returns
\* the retry's status; the order is call, refresh, save, retry
C12_RefreshOnceThenRetry ==
  \A kind \in {"proxy", "filemeta"} :
    (FreshTokenFirstCall(kind, 401) /\ RefreshedAfterFirstCall) =>
      /\ Len(obs.log) = 4
      /\ obs.log[3] = Event("save", obs.log[2].val)
      /\ obs.log[4].ev = "retry"
      /\ obs.sent = obs.log[2].val
      /\ obs.nRefresh = 1
      /\ obs.nApi = 2
      /\ obs.result.statusCode = obs.log[4].val

\* The proxy got 401 for the stored token, refreshed, retried and returned 200
C12_Witness ==
  /\ FreshTokenFirstCall("proxy", 401)
  /\ RefreshedAfterFirstCall
  /\ obs.log[4] = Event("retry", 200)
  /\ obs.result.statusCode = 200

\* C18: with HUBSPOT_ACCESS_TOKEN, HUBSPOT_REFRESH_TOKEN and the client
\* credentials set, and HUBSPOT_PORTAL_ID unset or equal to the request's
\* hub_id, an endpoint whose API call is answered 401 calls the token endpoint
\* next and, when that succeeds, retries with the new access token
C18_EnvTokensRefreshOn401 ==
  (/\ req.kind \in {"proxy", "filemeta"}
   /\ req.pc = "done"
   /\ EnvTokensSet
   /\ env.clientCreds
   /\ env.portalId \in {NoHub, HubToString(req.hub_id)})
    => \A k \in DOMAIN obs.log :
         obs.log[k] = Event("call", 401) =>
           /\ k < Len(obs.log)
           /\ obs.log[k + 1].ev = "refresh"
           /\ obs.log[k + 1].val # 0 =>
                (obs.log[Len(obs.log)].ev = "retry" /\ obs.sent = obs.log[k + 1].val)

\* The callback has returned after the code exchange gave tokens and a hub_id
Installed ==
  /\ req.kind = "callback"
  /\ req.pc = "done"
  /\ Len(obs.log) >= 1
  /\ obs.log[1].ev = "exchange"
  /\ obs.log[1].val > 0

\* C20: once the code exchange has succeeded with a hub_id, the callback ends
\* with a success response (redirect or success page), whatever the schema
\* lookup does
C20_InstallCompletes ==
  Installed => obs.result.statusCode \in {200, 302}

\* The schema lookup was answered 500 and the installation still ended with
\* the redirect
C20_Witness ==
  /\ Installed
  /\ \E k \in DOMAIN obs.log : obs.log[k] = Event("call", 500)
  /\ obs.result.statusCode = 302

\* C30: the OAuth callback calls saveTokens only after an exchange that
\* succeeded and returned a hub_id.  Without client credentials (500) or
\* without a code (400) it returns before calling the token endpoint; when
\* the exchange is refused (400) or its answer has no hub_id (500) it returns
\* after that call; in all four cases saveTokens is not called and the store
\* is left as it was
C30_SaveOnlyAfterExchange ==
  [][/\ (req.pc \in {"idle", "done"} /\ req'.kind = "callback" /\ req' # req) =>
          /\ req'.pc = "exchange" => env.clientCreds
          /\ req'.pc # "exchange" =>
               /\ req'.pc = "done"
               /\ obs'.result \in {Result(500, "Missing CLIENT_ID or CLIENT_SECRET"),
                                   Result(400, "No authorization code received")}
               /\ ~env.clientCreds => obs'.result.statusCode = 500
          /\ obs'.log = <<>>
          /\ store' = store
     /\ req.pc = "exchange" =>
          /\ Len(obs'.log) >= 1
          /\ obs'.log[1].ev = "exchange"
          /\ obs'.log[1].val <= 0 =>
               /\ Len(obs'.log) = 1
               /\ req'.pc = "done"
               /\ obs'.result.statusCode = IF obs'.log[1].val = -1 THEN 400 ELSE 500
               /\ store' = store
     /\ req'.kind = "callback" =>
          \A k \in DOMAIN obs'.log :
            obs'.log[k].ev = "save" => (obs'.log[1].ev = "exchange" /\ obs'.log[1].val > 0)
    ]_vars

\* The token endpoint refused the exchange while the store held the record
\* of an earlier installation, and the callback answered 400
C30_Witness ==
  /\ req.kind = "callback"
  /\ req.pc = "done"
  /\ obs.log = <<Event("exchange", -1)>>
  /\ obs.result = Result(400, "OAuth Error")
  /\ \E h \in Hubs : store[h] # Null

\* C24: when getTokens finds no record for the request's portal, the proxy
\* answers 401 needsAuth and makes no HubSpot API call and no refresh call
C24_NoRecordIsUnauthenticated ==
  (/\ req.kind = "proxy"
   /\ Truthy(req.hub_id)
   /\ req.pc # "acquire"
   /\ obs.source \in {"env", "none"}
   /\ obs.proactive = "none")
    => /\ obs.nApi = 0
       /\ obs.nRefresh = 0
       /\ req.pc = "done" => obs.result = NeedsAuth

-----------------------------------------------------------------------------
(* Direct use of the token store: saveTokens and getTokens called with     *)
(* inputs of the shapes their callers pass, in any order.  probe holds the *)
(* last call and, in `last`, the saveTokens call that preceded it.         *)

\* The saveTokens call that precedes the next call
LastSave ==
  IF probe.op = "save"
    THEN [hub_id |-> probe.hub_id, input |-> probe.input, at |-> probe.at, io |-> probe.io,
          error |-> probe.error, record |-> probe.record]
    ELSE probe.last

\* oauth-callback passes the provider's JSON (snake case, expires_in);
\* refreshAccessToken passes newTokenData (camel case, expiresAt)
SaveInputs ==
  {[accessToken |-> 0, access_token |-> AccessTok(i, 1),
    refreshToken |-> 0, refresh_token |-> RefreshTok(i, 1),
    expiresAt |-> 0, expires_in |-> e] : i \in {111}, e \in {0, ProviderExpiresIn}}
  \cup
  {[accessToken |-> 0, access_token |-> AccessTok(EnvOwner, 0),
    refreshToken |-> 0, refresh_token |-> RefreshTok(EnvOwner, 0),
    expiresAt |-> 0, expires_in |-> ProviderExpiresIn],
   TokenInput(AccessTok(EnvOwner, 1), RefreshTok(EnvOwner, 0),
              StartTime + ProviderExpiresIn * 1000),
   TokenInput(0, RefreshTok(EnvOwner, 1), StartTime + ProviderExpiresIn * 1000)}

StoreHubs == {NoHub, StrHub(111), StrHub(222), NumHub(111)}

StoreConfigs ==
  {c \in EnvConfigs : /\ c.clientCreds
                      /\ c.expiresAt = 0
                      /\ c.portalId \in {NoHub, StrHub(EnvOwner)}}

InitStore ==
  /\ env \in StoreConfigs
  /\ store = [h \in Hubs |-> Null]
  /\ now = StartTime
  /\ ticks = 0
  /\ issued = 0
  /\ req = IdleReq
  /\ obs = FreshObs
  /\ probe = FirstProbe

CallSaveTokens ==
  /\ probe.n < MaxCalls
  /\ \E hub_id \in StoreHubs, tokens \in SaveInputs, ioFails \in IoChoices :
       LET r == SaveTokens(store, hub_id, tokens, now, ioFails) IN
       /\ store' = r.store
       /\ probe' = [op |-> "save", n |-> probe.n + 1, hub_id |-> hub_id, input |-> tokens,
                    at |-> now, io |-> ioFails, error |-> r.error, record |-> r.record,
                    last |-> LastSave]
  /\ UNCHANGED <<env, now, ticks, issued, req, obs>>

CallGetTokens ==
  /\ probe.n < MaxCalls
  /\ \E hub_id \in StoreHubs, ioFails \in IoChoices :
       probe' = [op |-> "get", n |-> probe.n + 1, hub_id |-> hub_id, input |-> Null,
                 at |-> now, io |-> ioFails, error |-> "none",
                 record |-> GetTokens(store, hub_id, now, ioFails),
                 last |-> LastSave]
  /\ UNCHANGED <<env, store, now, ticks, issued, req, obs>>

NextStore ==
  \/ Tick
  \/ CallSaveTokens
  \/ CallGetTokens

SpecStore == InitStore /\ [][NextStore]_vars

-----------------------------------------------------------------------------
(* Properties of the token store                                           *)

\* The tokens of portal `hub_id` that a saveTokens call for it was given
Passed(hub_id, input) ==
  IF input = Null THEN {}
  ELSE {x \in {input.accessToken, input.access_token,
               input.refreshToken, input.refresh_token} \ {0} : Owner(x) = hub_id.id}

\* C4: getTokens for one portal never returns a record with tokens that were
\* passed to saveTokens under another portal, whose tokens they are
C4_NoCrossTenantRead ==
  (/\ probe.op = "get"
   /\ probe.record # Null
   /\ probe.last.error = "none"
   /\ Truthy(probe.hub_id)
   /\ probe.last.hub_id.id # probe.hub_id.id)
    => /\ probe.record.accessToken \notin Passed(probe.last.hub_id, probe.last.input)
       /\ probe.record.refreshToken \notin Passed(probe.last.hub_id, probe.last.input)

\* saveTokens was called twice in a row with the same portal and the same data
SavedTwice ==
  /\ probe.op = "save"
  /\ probe.error = "none"
  /\ probe.last.error = "none"
  /\ probe.last.hub_id = probe.hub_id
  /\ probe.last.input = probe.input

SameButUpdatedAt(a, b) ==
  /\ a.hub_id = b.hub_id
  /\ a.accessToken = b.accessToken
  /\ a.refreshToken = b.refreshToken
  /\ a.expiresAt = b.expiresAt

\* C7 as stated: two saveTokens calls with identical data, with expiresAt or
\* with expires_in, give records that are equal except for updatedAt
C7_SaveIsIdempotent ==
  SavedTwice => SameButUpdatedAt(probe.record, probe.last.record)

\* C7 amended: two saveTokens calls with identical data give records with the
\* same hub_id, accessToken and refreshToken; expiresAt is the same when the
\* data carries expiresAt, and otherwise later by the time between the calls
C7_SaveIsIdempotentOnAbsoluteExpiry ==
  SavedTwice =>
    /\ probe.record.hub_id = probe.last.record.hub_id
    /\ probe.record.accessToken = probe.last.record.accessToken
    /\ probe.record.refreshToken = probe.last.record.refreshToken
    /\ probe.record.expiresAt - probe.last.record.expiresAt
         = IF probe.input.expiresAt # 0 THEN 0 ELSE probe.at - probe.last.at

\* The same data with expiresAt was saved twice, the clock having advanced
C7_Witness ==
  /\ SavedTwice
  /\ probe.input.expiresAt # 0
  /\ probe.at > probe.last.at
  /\ probe.record.updatedAt # probe.last.record.updatedAt

\* C8: with every backend, getTokens after saveTokens of a provider response
\* (access_token a, refresh_token r, expires_in s) under the same portal
\* returns a, r and expiresAt = time of the save + s * 1000
C8_SaveThenGet ==
  (/\ probe.op = "get"
   /\ ~probe.io
   /\ probe.last.error = "none"
   /\ ~probe.last.io
   /\ probe.last.hub_id = probe.hub_id
   /\ probe.last.input.access_token # 0
   /\ probe.last.input.expires_in # 0)
    => /\ probe.record # Null
       /\ probe.record.accessToken = probe.last.input.access_token
       /\ probe.record.refreshToken = probe.last.input.refresh_token
       /\ probe.record.expiresAt = probe.last.at + probe.last.input.expires_in * 1000

\* C13: without a hub_id, saveTokens fails with the validation error and
\* stores nothing, and getTokens returns no record, not even the one built
\* from the environment
C13_HubIdRequired ==
  ~Truthy(probe.hub_id) =>
    /\ probe.op = "save" => (probe.error = "hub_id is required" /\ probe.record = Null)
    /\ probe.op = "get" => probe.record = Null

\* C15: the store holds at most one record per portal, the number 111 and the
\* string "111" being the same portal, and getTokens with either form finds
\* the record that saveTokens stored with the other (backends that store)
C15_OneRecordPerTenant ==
  /\ \A i \in PortalIds : ~(store[NumHub(i)] # Null /\ store[StrHub(i)] # Null)
  /\ (/\ probe.op = "get"
      /\ env.backend \in {"map", "redis"}
      /\ ~probe.io
      /\ probe.last.error = "none"
      /\ ~probe.last.io
      /\ Truthy(probe.hub_id)
      /\ probe.last.hub_id.id = probe.hub_id.id)
       => /\ probe.record # Null
          /\ probe.record.accessToken = probe.last.record.accessToken

\* C19: a saveTokens call for one portal leaves what getTokens returns for
\* every other portal as it was
C19_SaveLeavesOtherPortals ==
  [][(probe'.op = "save" /\ probe'.n = probe.n + 1) =>
       \A h \in Hubs :
         h.id # probe'.hub_id.id =>
           GetTokens(store', h, now, FALSE) = GetTokens(store, h, now, FALSE)]_vars

\* Tokens were saved for portal 222 while the store held a record of portal 111
C19_Witness ==
  /\ probe.op = "save"
  /\ probe.error = "none"
  /\ probe.hub_id.id = 222
  /\ \E h \in Hubs : h.id = 111 /\ store[h] # Null /\ store[h] = probe.last.record

\* Lifetime the README gives the memory cache
TenMinutes == 10 * 60 * 1000

\* C21: a record in the in-memory cache is temporary: more than 10 minutes
\* after the saveTokens call that cached it, getTokens for the same portal no
\* longer returns that record
C21_CacheExpires ==
  (/\ probe.op = "get"
   /\ env.backend = "map"
   /\ probe.last.error = "none"
   /\ probe.last.hub_id = probe.hub_id
   /\ probe.at - probe.last.at > TenMinutes)
    => probe.record # probe.last.record

\* C26: when the backend write inside saveTokens fails, saveTokens does not
\* raise and returns the record, and a later getTokens for the same portal
\* in the same process still returns that record
C26_FailedWriteKeepsRecord ==
  /\ (/\ probe.op = "save"
      /\ probe.io
      /\ Truthy(probe.hub_id)
      /\ Or(probe.input.accessToken, probe.input.access_token) # 0)
       => (probe.error = "none" /\ probe.record # Null)
  /\ (/\ probe.op = "get"
      /\ ~probe.io
      /\ probe.last.io
      /\ probe.last.error = "none"
      /\ probe.last.hub_id = probe.hub_id)
       => probe.record = probe.last.record

-----------------------------------------------------------------------------
(* The Map-backed store (part_004) and the Redis-backed store               *)
(* (token-store.js with TOKEN_STORAGE_BACKEND=redis) given the same calls   *)
(* under the same environment, Redis answering every command.  Here store   *)
(* is the pair of their contents and probe the last call with both results. *)

\* saveTokens of part_004
SaveTokensMap(st, hub_id, tokens, t) ==
  LET tokenData == TokenData(hub_id, tokens, t) IN
  IF ~Truthy(hub_id) THEN [error |-> "hub_id is required", record |-> Null, store |-> st]
  ELSE IF tokenData.accessToken = 0 THEN [error |-> "TypeError", record |-> Null, store |-> st]
  ELSE [error |-> "none", record |-> tokenData, store |-> [st EXCEPT ![hub_id] = tokenData]]

PairConfigs == {c \in StoreConfigs : c.backend = "redis"}

InitPair ==
  /\ env \in PairConfigs
  /\ store = [map |-> [h \in Hubs |-> Null], redis |-> [h \in Hubs |-> Null]]
  /\ now = StartTime
  /\ ticks = 0
  /\ issued = 0
  /\ req = IdleReq
  /\ obs = FreshObs
  /\ probe = [op |-> "none", n |-> 0, hub_id |-> NoHub, map |-> Null, redis |-> Null]

PairSaveTokens ==
  /\ probe.n < MaxCalls
  /\ \E hub_id \in StoreHubs, tokens \in SaveInputs :
       LET m == SaveTokensMap(store.map, hub_id, tokens, now)
           r == SaveTokens(store.redis, hub_id, tokens, now, FALSE)
       IN
       /\ store' = [map |-> m.store, redis |-> r.store]
       /\ probe' = [op |-> "save", n |-> probe.n + 1, hub_id |-> hub_id,
                    map |-> m.record, redis |-> r.record]
  /\ UNCHANGED <<env, now, ticks, issued, req, obs>>

PairGetTokens ==
  /\ probe.n < MaxCalls
  /\ \E hub_id \in StoreHubs :
       probe' = [op |-> "get", n |-> probe.n + 1, hub_id |-> hub_id,
                 map |-> GetTokensMap(store.map, hub_id, now),
                 redis |-> GetTokensRedis(store.redis, hub_id, now, FALSE)]
  /\ UNCHANGED <<env, store, now, ticks, issued, req, obs>>

NextPair ==
  \/ PairSaveTokens
  \/ PairGetTokens

SpecPair == InitPair /\ [][NextPair]_vars

\* C17: after the same saveTokens/getTokens calls the Map-backed and the
\* Redis-backed store answer every getTokens alike: both find a record or
\* neither does, and a record found has the same accessToken and refreshToken
C17_BackendsAgree ==
  probe.op = "get" =>
    /\ (probe.map = Null) <=> (probe.redis = Null)
    /\ (probe.map # Null /\ probe.redis # Null) =>
         /\ probe.map.accessToken = probe.redis.accessToken
         /\ probe.map.refreshToken = probe.redis.refreshToken

-----------------------------------------------------------------------------
(* The token store on Netlify Blobs (install.js): one record under the key *)
(* 'hubspot_tokens', saveTokens(tokens) and getTokens() without a hub_id.  *)
(* Here store is that one blob, Null while it does not exist.              *)

BlobTokenData(tokens, t) ==
  [accessToken |-> Or(tokens.accessToken, tokens.access_token),
   refreshToken |-> Or(tokens.refreshToken, tokens.refresh_token),
   expiresAt |-> Or(tokens.expiresAt, t + Or(tokens.expires_in, DefaultExpiresIn) * 1000),
   updatedAt |-> t]

\* saveTokens: store.set is awaited outside any try block
SaveTokensBlob(blob, tokens, t, ioFails) ==
  IF ioFails THEN [error |-> "blob store error", record |-> Null, store |-> blob]
  ELSE [error |-> "none", record |-> BlobTokenData(tokens, t),
        store |-> BlobTokenData(tokens, t)]

\* getTokens: store.get is awaited outside any try block
GetTokensBlob(blob, ioFails) ==
  IF ioFails THEN [error |-> "blob store error", record |-> Null]
  ELSE [error |-> "none", record |-> blob]

\* A refresh that lets the error of saveTokens reach its caller
RefreshBlobSaveThrows(blob, refreshToken, resp, t, ioFails) ==
  LET pre == RefreshPrecheck(refreshToken)
      newTokenData == [accessToken |-> resp.access_token,
                       refreshToken |-> Or(resp.refresh_token, TokenToUse(refreshToken)),
                       expiresAt |-> t + resp.expires_in * 1000]
      save == SaveTokensBlob(blob, TokenInput(newTokenData.accessToken,
                                              newTokenData.refreshToken,
                                              newTokenData.expiresAt), t, ioFails)
  IN
  IF pre # "none" THEN RefreshFailure(pre, FALSE, blob)
  ELSE IF ~resp.ok THEN RefreshRefused(resp, blob)
  ELSE IF save.error # "none" THEN RefreshFailure(save.error, TRUE, blob)
  ELSE [error |-> "none", message |-> "", called |-> TRUE, saved |-> TRUE,
        savedUnder |-> NoHub, tokens |-> newTokenData, store |-> save.store]

\* refreshAccessToken(refreshToken) of the single-tenant hubspot-proxy:
\* try { await saveTokens(newTokenData) } catch { log }; return newTokenData
RefreshAccessTokenBlob(blob, refreshToken, resp, t, ioFails) ==
  LET pre == RefreshPrecheck(refreshToken)
      newTokenData == [accessToken |-> resp.access_token,
                       refreshToken |-> Or(resp.refresh_token, TokenToUse(refreshToken)),
                       expiresAt |-> t + resp.expires_in * 1000]
      save == SaveTokensBlob(blob, TokenInput(newTokenData.accessToken,
                                              newTokenData.refreshToken,
                                              newTokenData.expiresAt), t, ioFails)
  IN
  IF pre # "none" THEN RefreshFailure(pre, FALSE, blob)
  ELSE IF ~resp.ok THEN RefreshRefused(resp, blob)
  ELSE [error |-> "none", message |-> "", called |-> TRUE, saved |-> save.error = "none",
        savedUnder |-> NoHub, tokens |-> newTokenData, store |-> save.store]

BlobConfigs ==
  {[c EXCEPT !.backend = "blob"] : c \in {e \in StoreConfigs : e.accessToken = 0}}

InitBlob ==
  /\ env \in BlobConfigs
  /\ store = Null
  /\ now = StartTime
  /\ ticks = 0
  /\ issued = 0
  /\ req = IdleReq
  /\ obs = FreshObs
  /\ probe = FirstProbe

CallSaveTokensBlob ==
  /\ probe.n < MaxCalls
  /\ \E tokens \in SaveInputs, ioFails \in BOOLEAN :
       LET r == SaveTokensBlob(store, tokens, now, ioFails) IN
       /\ store' = r.store
       /\ probe' = [op |-> "save", n |-> probe.n + 1, hub_id |-> NoHub, input |-> tokens,
                    at |-> now, io |-> ioFails, error |-> r.error, record |-> r.record,
                    last |-> LastSave]
  /\ UNCHANGED <<env, now, ticks, issued, req, obs>>

CallGetTokensBlob ==
  /\ probe.n < MaxCalls
  /\ \E ioFails \in BOOLEAN :
       LET r == GetTokensBlob(store, ioFails) IN
       probe' = [op |-> "get", n |-> probe.n + 1, hub_id |-> NoHub, input |-> Null,
                 at |-> now, io |-> ioFails, error |-> r.error, record |-> r.record,
                 last |-> LastSave]
  /\ UNCHANGED <<env, store, now, ticks, issued, req, obs>>

\* getAccessToken() of the single-tenant hubspot-proxy: the stored token, a
\* refreshed one, or, also from its catch block, HUBSPOT_ACCESS_TOKEN.  The
\* provider numbers the tokens it issues here from 2: SaveInputs hold 0 and 1.
CallGetAccessTokenBlob ==
  /\ probe.n < MaxCalls
  /\ issued < MaxIssued
  /\ \E ioRead \in BOOLEAN, ioWrite \in BOOLEAN, rk \in RespKinds :
       LET g == GetTokensBlob(store, ioRead)
           d == IF g.error = "none" THEN GetAccessToken(g.record, now)
                ELSE [next |-> "fallback", token |-> 0, refreshToken |-> 0]
           resp == ProviderResponse(rk, Owner(TokenToUse(d.refreshToken)), issued + 2)
           r == IF d.next = "refresh"
                  THEN RefreshAccessTokenBlob(store, d.refreshToken, resp, now, ioWrite)
                  ELSE RefreshFailure("none", FALSE, store)
           refreshed == d.next = "refresh" /\ r.error = "none"
           token == CASE d.next = "use" -> d.token
                      [] refreshed -> r.tokens.accessToken
                      [] OTHER -> EnvFallback
       IN
       /\ store' = r.store
       /\ issued' = IF r.called /\ resp.ok THEN issued + 1 ELSE issued
       /\ obs' = [FreshObs EXCEPT
                    !.nRefresh = IF r.called THEN 1 ELSE 0,
                    !.sent = token,
                    !.source = CASE d.next = "use" -> "stored"
                                 [] refreshed -> "refreshed"
                                 [] token # 0 -> "env"
                                 [] OTHER -> "none",
                    !.log = IF r.called
                              THEN <<Event("refresh", IF resp.ok THEN resp.access_token ELSE 0)>>
                              ELSE <<>>]
       /\ probe' = [op |-> "token", n |-> probe.n + 1, hub_id |-> NoHub, input |-> Null,
                    at |-> now, io |-> ioWrite,
                    error |-> IF d.next = "refresh" THEN r.error ELSE "none",
                    record |-> r.tokens, last |-> LastSave]
  /\ UNCHANGED <<env, now, ticks, req>>

NextBlob ==
  \/ Tick
  \/ CallSaveTokensBlob
  \/ CallGetTokensBlob
  \/ CallGetAccessTokenBlob

SpecBlob == InitBlob /\ [][NextBlob]_vars

\* C14: getTokens never raises: an I/O error of the backend while reading
\* gives the 'not found' outcome, here for the blob store
C14_GetTokensNeverRaises ==
  probe.op = "get" => probe.error = "none"

\* C27: a refresh whose call of the token endpoint succeeded returns the new
\* record to getAccessToken even when saveTokens fails, and getAccessToken
\* returns the new access token for the API call
C27_RefreshSurvivesFailedSave ==
  (/\ probe.op = "token"
   /\ Len(obs.log) = 1
   /\ obs.log[1].ev = "refresh"
   /\ obs.log[1].val # 0)
    => /\ probe.error = "none"
       /\ probe.record # Null
       /\ probe.record.accessToken = obs.log[1].val
       /\ obs.sent = obs.log[1].val

\* The token endpoint issued a new token, the write to the blob store failed
\* and the store still holds the record saved before
C27_Witness ==
  /\ probe.op = "token"
  /\ obs.log = <<Event("refresh", obs.sent)>>
  /\ obs.sent # 0
  /\ probe.io
  /\ store # Null
  /\ store = probe.last.record
  /\ store.accessToken # obs.sent

-----------------------------------------------------------------------------
(* Two invocations of getAccessToken (hubspot-proxy) for the same portal,  *)
(* interleaved at their awaits: getTokens, the fetch of the token endpoint *)
(* and saveTokens.  Here req maps each invocation to its local variables,  *)
(* obs counts the calls of the token endpoint and probe is the saveTokens  *)
(* call that reached the backend last.                                     *)

Requests == {1, 2}

RaceHub == StrHub(111)

RaceStart ==
  [pc |-> "start", stale |-> FALSE, refreshToken |-> 0, fetched |-> 0,
   newTokenData |-> Null, token |-> 0, error |-> "none"]

\* The store before the race: the record of portal 111, saved six hours ago
\* (expired) or about to enter the refresh margin
RaceStores ==
  {[h \in Hubs |-> IF h = RaceHub
                     THEN [hub_id |-> RaceHub, accessToken |-> AccessTok(111, 0),
                           refreshToken |-> RefreshTok(111, 0), expiresAt |-> e,
                           updatedAt |-> StartTime - SixHours]
                     ELSE Null] :
     e \in {StartTime - 1000, StartTime + FiveMinutes + 1000}}

RaceConfigs ==
  {c \in EnvConfigs : /\ c.clientCreds
                      /\ c.backend \in {"map", "redis"}
                      /\ c.expiresAt = 0
                      /\ c.portalId = NoHub}

InitRace ==
  /\ env \in RaceConfigs
  /\ store \in RaceStores
  /\ now = StartTime
  /\ ticks = 0
  /\ issued = 0
  /\ req = [i \in Requests |-> RaceStart]
  /\ obs = [nRefresh |-> 0]
  /\ probe = [op |-> "none", by |-> 0, token |-> 0]

RaceTick ==
  /\ ticks < MaxTicks
  /\ \E d \in TickSteps : now' = now + d
  /\ ticks' = ticks + 1
  /\ UNCHANGED <<env, store, issued, req, obs, probe>>

\* getAccessToken: await getTokens(hub_id), then needsRefresh
RaceGet(i) ==
  /\ req[i].pc = "start"
  /\ \E ioFails \in IoChoices :
       LET d == GetAccessToken(GetTokens(store, RaceHub, now, ioFails), now) IN
       req' = [req EXCEPT ![i] =
                 IF d.next = "refresh"
                   THEN [@ EXCEPT !.pc = "fetch", !.stale = TRUE,
                                  !.refreshToken = d.refreshToken]
                   ELSE [@ EXCEPT !.pc = "done",
                                  !.token = IF d.next = "use" THEN d.token
                                            ELSE EnvFallback]]
  /\ UNCHANGED <<env, store, now, ticks, issued, obs, probe>>

\* refreshAccessToken up to newTokenData: await fetch(token endpoint); a
\* refusal is thrown, caught by getAccessToken and followed by the fallback
RaceFetch(i) ==
  /\ req[i].pc = "fetch"
  /\ \E rk \in {"ok", "error"} :
       LET pre == RefreshPrecheck(req[i].refreshToken)
           resp == ProviderResponse(rk, Owner(TokenToUse(req[i].refreshToken)), issued + 1)
       IN
       /\ issued' = IF pre = "none" /\ resp.ok THEN issued + 1 ELSE issued
       /\ obs' = [obs EXCEPT !.nRefresh = IF pre = "none" THEN @ + 1 ELSE @]
       /\ req' = [req EXCEPT ![i] =
                    IF pre = "none" /\ resp.ok
                      THEN [@ EXCEPT !.pc = "save", !.fetched = resp.access_token,
                              !.newTokenData =
                                 [accessToken |-> resp.access_token,
                                  refreshToken |-> Or(resp.refresh_token,
                                                      TokenToUse(req[i].refreshToken)),
                                  expiresAt |-> now + resp.expires_in * 1000]]
                      ELSE [@ EXCEPT !.pc = "done", !.token = EnvFallback,
                              !.error = IF pre # "none" THEN pre
                                        ELSE "Failed to refresh token"]]
  /\ UNCHANGED <<env, store, now, ticks, probe>>

\* refreshAccessToken from newTokenData on: await saveTokens, return
RaceSave(i) ==
  /\ req[i].pc = "save"
  /\ \E ioFails \in IoChoices :
       LET r == RefreshCommit(store, RaceHub, req[i].newTokenData, now, ioFails) IN
       /\ store' = r.store
       /\ req' = [req EXCEPT ![i] = [@ EXCEPT !.pc = "done", !.token = r.tokens.accessToken]]
       /\ probe' = IF ioFails THEN probe
                   ELSE [op |-> "landed", by |-> i, token |-> r.tokens.accessToken]
  /\ UNCHANGED <<env, now, ticks, issued, obs>>

NextRace ==
  \/ RaceTick
  \/ \E i \in Requests : RaceGet(i)
  \/ \E i \in Requests : RaceFetch(i)
  \/ \E i \in Requests : RaceSave(i)

SpecRace == InitRace /\ [][NextRace]_vars

\* Both invocations have returned, both had found the record due for a refresh
BothRefreshed ==
  \A i \in Requests : req[i].pc = "done" /\ req[i].stale

\* C16: two invocations for the same portal that both find the record due
\* each call the token endpoint; when the provider answers both, each ends
\* without error with the token it was issued, and the store holds the
\* record of the saveTokens call that reached the backend last
C16_LastSaveWins ==
  BothRefreshed =>
    /\ obs.nRefresh = 2
    /\ (\A i \in Requests : req[i].fetched # 0) =>
         /\ \A i \in Requests : req[i].error = "none" /\ req[i].token = req[i].fetched
         /\ probe.op = "landed" => store[RaceHub].accessToken = probe.token

\* The invocation that was issued its tokens first saved them last: the
\* store holds the older pair
C16_Witness ==
  /\ BothRefreshed
  /\ req[1].fetched = AccessTok(111, 1)
  /\ req[2].fetched = AccessTok(111, 2)
  /\ probe.by = 1
  /\ store[RaceHub].accessToken = AccessTok(111, 1)

-----------------------------------------------------------------------------
(* needsRefresh applied to the records it can be given: none, a record     *)
(* without expiresAt, records that expire around the 5-minute margin, and  *)
(* the record getTokens builds from the environment.                       *)

ExpiryOffsets ==
  {0 - 1000, 0, FiveMinutes - 1000, FiveMinutes - 1, FiveMinutes, FiveMinutes + 1,
   FiveMinutes + 1000, SixHours}

FreshInputs(t) ==
  {Null, GetTokens(store, StrHub(EnvOwner), t, FALSE)}
  \cup
  {[hub_id |-> StrHub(i), accessToken |-> AccessTok(i, 1), refreshToken |-> RefreshTok(i, 1),
    expiresAt |-> e, updatedAt |-> StartTime] :
      i \in PortalIds, e \in {0} \cup {t + d : d \in ExpiryOffsets}}

FreshConfigs ==
  {c \in EnvConfigs : c.clientCreds /\ c.backend = "map" /\ c.portalId = NoHub}

InitFresh ==
  /\ env \in FreshConfigs
  /\ store = [h \in Hubs |-> Null]
  /\ now = StartTime
  /\ ticks = 0
  /\ issued = 0
  /\ req = IdleReq
  /\ obs = FreshObs
  /\ probe = FirstProbe

CallNeedsRefresh ==
  /\ \E tokens \in FreshInputs(now) :
       probe' = [FirstProbe EXCEPT !.op = "needsRefresh", !.input = tokens, !.at = now,
                                  !.record = [out |-> NeedsRefresh(tokens, now)]]
  /\ UNCHANGED <<env, store, now, ticks, issued, req, obs>>

NextFresh ==
  \/ Tick
  \/ CallNeedsRefresh

SpecFresh == InitFresh /\ [][NextFresh]_vars

-----------------------------------------------------------------------------
(* Properties of needsRefresh                                              *)

NoExpiry(tokens) == tokens = Null \/ tokens.expiresAt = 0

\* C6 as stated: needsRefresh is true when expiresAt <= now + 5 minutes, the
\* boundary included, false when expiresAt is later, and true for a missing
\* record or a record without expiresAt
C6_BoundaryIncluded ==
  probe.op = "needsRefresh" =>
    probe.record.out = (NoExpiry(probe.input)
                          \/ probe.input.expiresAt <= probe.at + FiveMinutes)

\* C6 amended: needsRefresh is true when expiresAt < now + 5 minutes, false
\* when expiresAt >= now + 5 minutes (at the boundary too), and true for a
\* missing record or a record without expiresAt
C6_BoundaryExcluded ==
  probe.op = "needsRefresh" =>
    probe.record.out = (NoExpiry(probe.input)
                          \/ probe.input.expiresAt < probe.at + FiveMinutes)

\* needsRefresh answered false for a record that expires in exactly 5 minutes
C6_Witness ==
  /\ probe.op = "needsRefresh"
  /\ ~NoExpiry(probe.input)
  /\ probe.input.expiresAt = probe.at + FiveMinutes
  /\ probe.record.out = FALSE

-----------------------------------------------------------------------------
(* The response of the OAuth callback to the browser, in the three forms   *)
(* of the handler: "redirect" (oauth-callback.js 40-219), "tokenPage"      *)
(* (part_002 30-255) and "postMessage" (oauth-callback.js 429-591).  Two   *)
(* invocations receive the same request under the same environment and the *)
(* provider answers them alike but for the token values it issues.  Here   *)
(* req, obs and store map each invocation to its state, its response and   *)
(* the store it wrote to; probe holds what the two invocations share.      *)

CallbackVariants == {"redirect", "tokenPage", "postMessage"}

\* statusCode, the page or header returned, and the values interpolated into it
Response(statusCode, page, values) ==
  [statusCode |-> statusCode, page |-> page, values |-> values]

NoResponse == Response(0, "none", <<>>)

\* The provider's JSON as the handler passes it to saveTokens
ExchangedInput(tokens) ==
  [accessToken |-> 0, access_token |-> tokens.access_token,
   refreshToken |-> 0, refresh_token |-> tokens.refresh_token,
   expiresAt |-> 0, expires_in |-> tokens.expires_in]

\* The return statement the handler reaches once exchangeForTokens succeeded
SuccessResponse(variant, tokens, saveError) ==
  CASE variant = "redirect" /\ ~Truthy(tokens.hub_id) ->
         Response(500, "Missing hub_id in OAuth response", <<>>)
    [] variant = "redirect" /\ Truthy(tokens.hub_id) /\ saveError # "none" ->
         Response(500, saveError, <<>>)
    [] variant = "redirect" /\ Truthy(tokens.hub_id) /\ saveError = "none" ->
         Response(302, "Location", <<tokens.hub_id.id>>)
    [] variant = "tokenPage" ->
         Response(200, "OAuth Tokens Received", <<tokens.access_token, tokens.refresh_token>>)
    [] OTHER ->
         Response(200, "OAuth Success",
                  <<tokens.access_token, tokens.refresh_token, tokens.expires_in>>)

\* The store after the handler: "redirect" awaits saveTokens(hub_id, tokens),
\* "tokenPage" calls saveTokens(tokens) in a try block, "postMessage" saves nothing
StoreAfterCallback(variant, st, tokens, t, ioFails) ==
  CASE variant = "redirect" /\ Truthy(tokens.hub_id) ->
         [st EXCEPT !.multi = SaveTokens(@, tokens.hub_id, ExchangedInput(tokens),
                                         t, ioFails).store]
    [] variant = "tokenPage" ->
         [st EXCEPT !.single = SaveTokensBlob(@, ExchangedInput(tokens), t, ioFails).store]
    [] OTHER -> st

\* exports.handler of oauth-callback: its response and the store it leaves
CallbackHandler(variant, hasCode, tokens, st, t, ioFails) ==
  IF ~env.clientCreds
    THEN [response |-> Response(500, "Missing CLIENT_ID or CLIENT_SECRET", <<>>),
          store |-> st]
  ELSE IF ~hasCode
    THEN [response |-> Response(400, "No authorization code received", <<>>), store |-> st]
  ELSE IF ~tokens.ok
    THEN [response |-> Response(400, "OAuth Error", <<>>), store |-> st]
  ELSE [response |->
          SuccessResponse(variant, tokens,
                          SaveTokens(st.multi, tokens.hub_id, ExchangedInput(tokens),
                                     t, ioFails).error),
        store |-> StoreAfterCallback(variant, st, tokens, t, ioFails)]

\* Serial numbers of the tokens the provider may issue to an invocation
PageIssues == 1 .. (MaxIssued + 1)

PageStore == [multi |-> [h \in Hubs |-> Null], single |-> Null]

\* No token override in the environment: the schema lookup that follows
\* saveTokens in the "redirect" form then reads the store and changes nothing
PageConfigs == {c \in EnvConfigs : c.accessToken = 0}

PageScenarios ==
  [variant : CallbackVariants, hasCode : BOOLEAN, rk : RespKinds \ {"noRefreshToken"},
   owner : PortalIds, ioFails : BOOLEAN]

InitPage ==
  /\ env \in PageConfigs
  /\ store = [i \in Requests |-> PageStore]
  /\ now = StartTime
  /\ ticks = 0
  /\ issued = 0
  /\ req = [i \in Requests |-> [pc |-> "idle", tokens |-> Null]]
  /\ obs = [i \in Requests |-> NoResponse]
  /\ probe \in PageScenarios

\* Invocation i runs the handler; the provider issues it tokens number n
PageCallback(i) ==
  /\ req[i].pc = "idle"
  /\ \E n \in PageIssues :
       LET tokens == ProviderResponse(probe.rk, probe.owner, n)
           r == CallbackHandler(probe.variant, probe.hasCode, tokens, store[i], now,
                                probe.ioFails)
       IN
       /\ req' = [req EXCEPT ![i] = [pc |-> "done", tokens |-> tokens]]
       /\ obs' = [obs EXCEPT ![i] = r.response]
       /\ store' = [store EXCEPT ![i] = r.store]
  /\ UNCHANGED <<env, now, ticks, issued, probe>>

NextPage ==
  \/ PageCallback(1)
  \/ PageCallback(2)

SpecPage == InitPage /\ [][NextPage]_vars

\* C22: the response of the OAuth callback handler (status, headers, body)
\* does not depend on the token values: two invocations that differ only in
\* the tokens the provider issued return identical responses
C22_ResponseIndependentOfTokens ==
  (\A i \in Requests : req[i].pc = "done") => obs[1] = obs[2]

-----------------------------------------------------------------------------
(* update-statement-record: the properties the handler builds from the     *)
(* statements of the request.  A string is the sequence of its characters, *)
(* '' and undefined are the empty sequence.  Here req is the request body  *)
(* and obs the properties object, Null until the handler has built it.     *)

MaxStatements == 3

Semicolon == <<";">>

\* Array.prototype.join(';')
RECURSIVE Join(_)
Join(values) ==
  IF values = <<>> THEN <<>>
  ELSE IF Len(values) = 1 THEN values[1]
  ELSE values[1] \o Semicolon \o Join(Tail(values))

\* A deduplication that keeps the last occurrence of a value
RECURSIVE UniqueKeepsLast(_)
UniqueKeepsLast(values) ==
  IF values = <<>> THEN <<>>
  ELSE LET rest == Tail(values) IN
       IF \E i \in DOMAIN rest : rest[i] = Head(values)
         THEN UniqueKeepsLast(rest)
         ELSE <<Head(values)>> \o UniqueKeepsLast(rest)

\* Array.from(new Set(values)): a Set iterates in insertion order
RECURSIVE Unique(_)
Unique(values) ==
  IF values = <<>> THEN <<>>
  ELSE LET front == Unique(SubSeq(values, 1, Len(values) - 1))
           last == values[Len(values)]
       IN IF \E i \in DOMAIN front : front[i] = last THEN front ELSE Append(front, last)

\* The for loop's pushes of one field: the truthy values, in input order
Collect(statements, field) ==
  LET Has(s) == s[field] # <<>>
      kept == SelectSeq(statements, Has)
  IN [i \in DOMAIN kept |-> kept[i][field]]

\* accountNumbers: the map's truthy entry for each truthy bank_account_id
AccountNumbers(statements, accountMap) ==
  LET bankAccountIds == Collect(statements, "bank_account_id")
      Mapped(b) == /\ accountMap # Null
                   /\ b \in DOMAIN accountMap
                   /\ accountMap[b] # <<>>
      kept == SelectSeq(bankAccountIds, Mapped)
  IN [i \in DOMAIN kept |-> accountMap[kept[i]]]

PropertyNames == {"customer_id", "bank_account_id", "account_number", "gathr_statement_id"}

\* The values of each property before they are joined
PropertyValues(statements, accountMap) ==
  [customer_id |-> Unique(Collect(statements, "customer_id")),
   bank_account_id |-> Unique(Collect(statements, "bank_account_id")),
   account_number |-> Unique(AccountNumbers(statements, accountMap)),
   gathr_statement_id |-> Collect(statements, "id")]

\* const properties = {}; if (values.length > 0) properties[name] = values.join(';')
BuildProperties(statements, accountMap) ==
  LET values == PropertyValues(statements, accountMap) IN
  [name \in {n \in PropertyNames : Len(values[n]) > 0} |-> Join(values[name])]

StatementShapes ==
  {[customer_id |-> <<"a">>, bank_account_id |-> <<"a">>, id |-> <<"a">>],
   [customer_id |-> <<"b">>, bank_account_id |-> <<"b">>, id |-> <<"b">>],
   [customer_id |-> <<"a">>, bank_account_id |-> <<"b">>, id |-> <<"a">>],
   [customer_id |-> <<"b">>, bank_account_id |-> <<>>, id |-> <<"b">>],
   [customer_id |-> <<>>, bank_account_id |-> <<"a">>, id |-> <<>>],
   [customer_id |-> <<>>, bank_account_id |-> <<>>, id |-> <<>>]}

StatementLists == UNION {[1 .. k -> StatementShapes] : k \in 0 .. MaxStatements}

AccountMaps ==
  {Null,
   [b \in {<<"a">>, <<"b">>} |-> <<"x">>],
   [b \in {<<"a">>, <<"b">>} |-> IF b = <<"a">> THEN <<"y">> ELSE <<"x">>],
   [b \in {<<"a">>} |-> <<>>]}

InitStatements ==
  /\ env \in {c \in StoreConfigs : c.backend = "map" /\ c.accessToken = 0}
  /\ store = [h \in Hubs |-> Null]
  /\ now = StartTime
  /\ ticks = 0
  /\ issued = 0
  /\ \E statements \in StatementLists, accountMap \in AccountMaps :
       req = [gathrData |-> statements, accountNumberMap |-> accountMap]
  /\ obs = Null
  /\ probe = FirstProbe

\* The handler from `const statements` to `const properties`
UpdateStatementRecord ==
  /\ obs = Null
  /\ obs' = BuildProperties(req.gathrData, req.accountNumberMap)
  /\ UNCHANGED <<env, store, now, ticks, issued, req, probe>>

NextStatements == UpdateStatementRecord

SpecStatements == InitStatements /\ [][NextStatements]_vars

\* u lists every distinct value of c exactly once, in the order in which the
\* values first occur in c
FirstIndex(c, v) == CHOOSE i \in DOMAIN c : c[i] = v /\ \A j \in 1 .. (i - 1) : c[j] # v

DistinctInFirstOccurrenceOrder(u, c) ==
  /\ {u[i] : i \in DOMAIN u} = {c[i] : i \in DOMAIN c}
  /\ \A i, j \in DOMAIN u : i < j => FirstIndex(c, u[i]) < FirstIndex(c, u[j])

Arrangements(c) == UNION {[1 .. k -> {c[i] : i \in DOMAIN c}] : k \in 0 .. Len(c)}

\* The values the request holds for a property
Collected(name) ==
  CASE name = "customer_id" -> Collect(req.gathrData, "customer_id")
    [] name = "bank_account_id" -> Collect(req.gathrData, "bank_account_id")
    [] name = "account_number" -> AccountNumbers(req.gathrData, req.accountNumberMap)
    [] OTHER -> Collect(req.gathrData, "id")

\* C23: customer_id, bank_account_id and account_number each hold every
\* distinct collected value exactly once, in first-occurrence order, joined
\* by ';'; gathr_statement_id holds every statement id in input order, not
\* deduplicated; a property with no collected value is omitted
C23_PropertiesAggregate ==
  obs # Null =>
    /\ \A name \in PropertyNames : name \in DOMAIN obs <=> Collected(name) # <<>>
    /\ \A name \in (DOMAIN obs) \ {"gathr_statement_id"} :
         \E u \in Arrangements(Collected(name)) :
           /\ DistinctInFirstOccurrenceOrder(u, Collected(name))
           /\ obs[name] = Join(u)
    /\ "gathr_statement_id" \in DOMAIN obs =>
         obs.gathr_statement_id = Join(Collected("gathr_statement_id"))

\* Three statements with customers a, b, a and a repeated statement id, and
\* no account number collected
C23_Witness ==
  /\ obs # Null
  /\ Collected("customer_id") = << <<"a">>, <<"b">>, <<"a">> >>
  /\ \E i, j \in DOMAIN Collected("gathr_statement_id") :
       i # j /\ Collected("gathr_statement_id")[i] = Collected("gathr_statement_id")[j]
  /\ obs.customer_id = <<"a", ";", "b">>
  /\ "account_number" \notin DOMAIN obs

-----------------------------------------------------------------------------
(* The proxy that reads its token from the environment only (part_007).    *)
(* Here store is the module's storedToken, Null until a refresh sets it.   *)

\* refreshAccessToken(): throws when the token endpoint refuses, else sets
\* storedToken and returns its accessToken
LegacyRefreshAccessToken(stored, resp, t) ==
  LET refreshToken == Or(env.refreshToken, IF stored = Null THEN 0 ELSE stored.refreshToken) IN
  IF refreshToken = 0
    THEN [error |-> "No refresh token available", called |-> FALSE, store |-> stored]
  ELSE IF ~resp.ok
    THEN [error |-> "Failed to refresh token", called |-> TRUE, store |-> stored]
  ELSE [error |-> "none", called |-> TRUE,
        store |-> [accessToken |-> resp.access_token,
                   refreshToken |-> Or(resp.refresh_token, refreshToken),
                   expiresAt |-> t + resp.expires_in * 1000]]

\* The token endpoint refuses a request without client credentials
LegacyRespKinds == IF env.clientCreds THEN RespKinds ELSE {"error"}

InitLegacy ==
  /\ env \in EnvConfigs
  /\ store = Null
  /\ now = StartTime
  /\ ticks = 0
  /\ issued = 0
  /\ req = IdleReq
  /\ obs = FreshObs
  /\ probe = FirstProbe

\* handler up to the first fetch: getAccessToken() is HUBSPOT_ACCESS_TOKEN or null
BeginLegacy ==
  /\ req.pc \in {"idle", "done"}
  /\ \E path \in BOOLEAN :
       LET a == AfterToken("proxy", path, env.accessToken)
           r == [IdleReq EXCEPT !.kind = "legacy", !.path = path]
       IN
       /\ req' = IF a.pc = "done" THEN Done(r)
                 ELSE [r EXCEPT !.pc = a.pc, !.accessToken = env.accessToken]
       /\ obs' = [FreshObs EXCEPT !.result = a.result,
                                  !.source = IF env.accessToken # 0 THEN "env" ELSE "none"]
  /\ UNCHANGED <<env, store, now, ticks, issued, probe>>

\* The first fetch; if (response.status === 401 && process.env.HUBSPOT_REFRESH_TOKEN)
LegacyCall ==
  /\ req.pc = "call"
  /\ \E status \in Statuses :
       LET refreshes == status = 401 /\ env.refreshToken # 0 IN
       /\ req' = IF refreshes THEN [req EXCEPT !.pc = "refresh401", !.status = status]
                 ELSE Done(req)
       /\ obs' = [obs EXCEPT !.nApi = @ + 1, !.sent = req.accessToken,
                             !.log = Append(@, Event("call", status)),
                             !.result = IF refreshes THEN NoResult
                                        ELSE Result(status, "proxied")]
  /\ UNCHANGED <<env, store, now, ticks, issued, probe>>

\* accessToken = await refreshAccessToken(), outside any inner try block: an
\* error reaches the handler's catch, which answers 500
LegacyRefresh ==
  /\ req.pc = "refresh401"
  /\ \E rk \in LegacyRespKinds :
       LET resp == ProviderResponse(rk, Owner(env.refreshToken), issued + 1)
           r == LegacyRefreshAccessToken(store, resp, now)
       IN
       /\ resp.ok => issued < MaxIssued
       /\ issued' = IF resp.ok THEN issued + 1 ELSE issued
       /\ store' = r.store
       /\ req' = IF r.error = "none"
                   THEN [req EXCEPT !.pc = "retry", !.accessToken = r.store.accessToken]
                   ELSE Done(req)
       /\ obs' = [obs EXCEPT
                    !.nRefresh = @ + 1,
                    !.log = Append(@, Event("refresh", IF r.error = "none"
                                                         THEN resp.access_token ELSE 0)),
                    !.result = IF r.error = "none" THEN NoResult
                               ELSE Result(500, "Internal server error")]
  /\ UNCHANGED <<env, now, ticks, probe>>

\* The second fetch: its response is returned whatever its status
LegacyRetry ==
  /\ req.pc = "retry"
  /\ \E status \in Statuses :
       /\ req' = Done(req)
       /\ obs' = [obs EXCEPT !.nApi = @ + 1, !.sent = req.accessToken,
                             !.log = Append(@, Event("retry", status)),
                             !.result = Result(status, "proxied")]
  /\ UNCHANGED <<env, store, now, ticks, issued, probe>>

NextLegacy ==
  \/ BeginLegacy
  \/ LegacyCall
  \/ LegacyRefresh
  \/ LegacyRetry

SpecLegacy == InitLegacy /\ [][NextLegacy]_vars

\* C25: when the first API call is answered 401 and the refresh that follows
\* fails or cannot be made, the proxy makes no second API call and returns the
\* 401, not a 500; when the retry is answered 401 too, that 401 is returned
\* after exactly one refresh and one retry
C25_FailedRefreshKeeps401 ==
  (req.kind \in {"proxy", "legacy"} /\ req.pc = "done") =>
    \A k \in DOMAIN obs.log :
      obs.log[k] = Event("call", 401) =>
        LET after == SubSeq(obs.log, k + 1, Len(obs.log)) IN
        /\ (\A j \in DOMAIN after : ~(after[j].ev = "refresh" /\ after[j].val # 0)) =>
             /\ \A j \in DOMAIN after : after[j].ev \notin {"call", "retry"}
             /\ obs.result.statusCode = 401
        /\ (\E j \in DOMAIN after : after[j] = Event("retry", 401)) =>
             /\ obs.result.statusCode = 401
             /\ Cardinality({j \in DOMAIN after : after[j].ev = "refresh"}) = 1
             /\ Cardinality({j \in DOMAIN after : after[j].ev \in {"call", "retry"}}) = 1

-----------------------------------------------------------------------------
(* Direct calls of refreshAccessToken(hub_id, refreshToken) of the         *)
(* multi-tenant hubspot-proxy (part_008), with and without client          *)
(* credentials and environment override, on a store that may hold a record *)
(* of portal 111.  probe holds the last call and what it returned or      *)
(* threw, and in last.error the error of the call before it.               *)

RefreshConfigs ==
  {c \in EnvConfigs : c.expiresAt = 0 /\ c.portalId \in {NoHub, StrHub(EnvOwner)}}

\* The refreshToken argument: undefined, the stored one, the environment's
RefreshTokensPassed == {0, RefreshTok(111, 0), RefreshTok(EnvOwner, 0)}

\* What the token endpoint may answer, a refusal without a message included
RefreshResponses(owner, n) ==
  {ProviderResponse(rk, owner, n) : rk \in RespKinds}
  \cup {[ProviderResponse("error", owner, n) EXCEPT !.message = ""]}

InitRefresh ==
  /\ env \in RefreshConfigs
  /\ store \in RaceStores
  /\ now = StartTime
  /\ ticks = 0
  /\ issued = 0
  /\ req = IdleReq
  /\ obs = FreshObs
  /\ probe = [FirstProbe EXCEPT !.input = [refreshToken |-> 0, ok |-> FALSE,
                                          refresh_token |-> 0,
                                          message |-> "", statusText |-> ""]]

CallRefreshAccessToken ==
  /\ probe.n < MaxCalls
  /\ \E hub_id \in {StrHub(i) : i \in PortalIds}, refreshToken \in RefreshTokensPassed,
        ioFails \in IoChoices :
       \E resp \in RefreshResponses(Owner(TokenToUse(refreshToken)), issued + 1) :
         LET r == RefreshAccessToken(store, hub_id, refreshToken, resp, now, ioFails) IN
         /\ (r.called /\ resp.ok) => issued < MaxIssued
         /\ issued' = IF r.called /\ resp.ok THEN issued + 1 ELSE issued
         /\ store' = r.store
         /\ obs' = [FreshObs EXCEPT
                      !.nRefresh = IF r.called THEN 1 ELSE 0,
                      !.result = Result(0, r.message),
                      !.log = (IF r.called THEN <<Event("refresh", resp.access_token)>>
                               ELSE <<>>)
                              \o (IF r.saved THEN <<Event("save", r.tokens.accessToken)>>
                                  ELSE <<>>)]
         /\ probe' = [op |-> "refresh", n |-> probe.n + 1, hub_id |-> hub_id,
                      input |-> [refreshToken |-> refreshToken, ok |-> resp.ok,
                                 refresh_token |-> resp.refresh_token,
                                 message |-> resp.message, statusText |-> resp.statusText],
                      at |-> now, io |-> ioFails, error |-> r.error, record |-> r.tokens,
                      last |-> [NoSave EXCEPT !.error = probe.error]]
  /\ UNCHANGED <<env, now, ticks, req>>

NextRefresh ==
  \/ Tick
  \/ CallRefreshAccessToken

SpecRefresh == InitRefresh /\ [][NextRefresh]_vars

\* The step is a call of refreshAccessToken
RefreshCalled == probe'.op = "refresh" /\ probe'.n = probe.n + 1

\* C28: without client credentials, or with neither a refresh token passed
\* nor HUBSPOT_REFRESH_TOKEN set, refreshAccessToken fails before it calls the
\* token endpoint, and the store is left as it was
C28_FailsBeforeNetwork ==
  [][(/\ RefreshCalled
      /\ ~env.clientCreds \/ (probe'.input.refreshToken = 0 /\ env.refreshToken = 0))
       => /\ probe'.error \in {"No refresh token available",
                               "Missing CLIENT_ID or CLIENT_SECRET"}
          /\ probe'.record = Null
          /\ obs'.nRefresh = 0
          /\ obs'.log = <<>>
          /\ store' = store]_vars

\* Both failures happened on a store holding a record: a call without any
\* refresh token, then a call with one but without client credentials
C28_Witness ==
  /\ probe.op = "refresh"
  /\ \E h \in Hubs : store[h] # Null
  /\ probe.last.error = "No refresh token available"
  /\ probe.error = "Missing CLIENT_ID or CLIENT_SECRET"
  /\ probe.input.refreshToken # 0

\* C29: when the token endpoint answers the refresh request with a status
\* that is not successful, refreshAccessToken throws an error that carries
\* the provider's message (its status text when the body has none),
\* saveTokens is not called and the store is left as it was
C29_RefusedRefreshChangesNothing ==
  [][(/\ RefreshCalled
      /\ obs'.nRefresh = 1
      /\ ~probe'.input.ok)
       => /\ probe'.error = "Failed to refresh token"
          /\ obs'.result.message = IF probe'.input.message # "" THEN probe'.input.message
                                   ELSE probe'.input.statusText
          /\ obs'.result.message # ""
          /\ probe'.record = Null
          /\ \A k \in DOMAIN obs'.log : obs'.log[k].ev # "save"
          /\ store' = store]_vars

\* The token endpoint refused the refresh for a portal whose record is stored
C29_Witness ==
  /\ probe.op = "refresh"
  /\ obs.nRefresh = 1
  /\ ~probe.input.ok
  /\ probe.input.message = "BAD_REFRESH_TOKEN"
  /\ probe.error = "Failed to refresh token"
  /\ store[probe.hub_id] # Null

-----------------------------------------------------------------------------
(* saveTokens as a function of its argument, a field left out of the       *)
(* argument being told apart from a field that is 0.  Here req.tokens is   *)
(* the argument and probe the call and the record it returned.             *)

\* A field that the argument does not have
Undefined == 0 - 1

\* What `||` makes of a field: undefined and 0 are both falsy
Falsy(tokens) == [f \in DOMAIN tokens |-> IF tokens[f] = Undefined THEN 0 ELSE tokens[f]]

ExpiryInputs ==
  [accessToken : {Undefined, AccessTok(111, 1)},
   access_token : {Undefined, AccessTok(111, 0)},
   refreshToken : {Undefined, RefreshTok(111, 1)},
   refresh_token : {Undefined, RefreshTok(111, 0)},
   expiresAt : {Undefined, StartTime + SixHours},
   expires_in : {Undefined, 0, ProviderExpiresIn}]

InitExpiry ==
  /\ env \in {c \in StoreConfigs : c.backend = "map" /\ c.accessToken = 0}
  /\ store = [h \in Hubs |-> Null]
  /\ now = StartTime
  /\ ticks = 0
  /\ issued = 0
  /\ \E tokens \in ExpiryInputs : req = [pc |-> "idle", tokens |-> tokens]
  /\ obs = FreshObs
  /\ probe = FirstProbe

CallSaveTokensOnce ==
  /\ probe.n = 0
  /\ LET r == SaveTokens(store, StrHub(111), Falsy(req.tokens), now, FALSE) IN
     /\ store' = r.store
     /\ probe' = [op |-> "save", n |-> 1, hub_id |-> StrHub(111), input |-> req.tokens,
                  at |-> now, io |-> FALSE, error |-> r.error, record |-> r.record,
                  last |-> NoSave]
  /\ UNCHANGED <<env, now, ticks, issued, req, obs>>

NextExpiry ==
  \/ Tick
  \/ CallSaveTokensOnce

SpecExpiry == InitExpiry /\ [][NextExpiry]_vars

\* The field of the argument under its camelCase name, else its snake_case
\* name; a record field that is undefined is 0 in the record
Supplied(camel, snake) ==
  LET v == IF camel # Undefined THEN camel ELSE snake IN
  IF v = Undefined THEN 0 ELSE v

\* C31: saveTokens stores the supplied expiresAt, else save time +
\* expires_in * 1000 for every supplied expires_in, 0 included, else save
\* time + 21,600,000 ms; accessToken and refreshToken come from the camelCase
\* field when present and from the snake_case field otherwise
C31_ExpiryAndFields ==
  (probe.op = "save" /\ probe.error = "none") =>
    /\ probe.record.expiresAt =
         IF probe.input.expiresAt # Undefined THEN probe.input.expiresAt
         ELSE IF probe.input.expires_in # Undefined
           THEN probe.at + probe.input.expires_in * 1000
         ELSE probe.at + DefaultExpiresIn * 1000
    /\ probe.record.accessToken = Supplied(probe.input.accessToken, probe.input.access_token)
    /\ probe.record.refreshToken = Supplied(probe.input.refreshToken, probe.input.refresh_token)

-----------------------------------------------------------------------------
(* Saves of one portal's record racing with each other and with getTokens: *)
(* two 401-triggered refreshes of the proxy and one OAuth callback.  Each  *)
(* step runs from one await to the next.  saveTokens builds tokenData when *)
(* it is called; the Map store sets it in the same step, the Redis store   *)
(* awaits client.set, which lands later.  Here req maps each writer to its *)
(* local variables, obs.saved collects every tokenData a saveTokens call   *)
(* handed to the backend and probe is the last getTokens call.             *)

Writers == {1, 2, 3}

Callback == 3

AtomicStart ==
  [pc |-> "start", refreshToken |-> 0, hub_id |-> NoHub, input |-> Null, tokenData |-> Null]

AtomicConfigs ==
  {c \in EnvConfigs : /\ c.clientCreds
                      /\ c.backend \in {"map", "redis"}
                      /\ c.accessToken = 0}

\* The store before the race holds an expired record of portal 111
AtomicStores == {st \in RaceStores : st[RaceHub].expiresAt < StartTime}

InitAtomic ==
  /\ env \in AtomicConfigs
  /\ store \in AtomicStores
  /\ now = StartTime
  /\ ticks = 0
  /\ issued = 0
  /\ req = [i \in Writers |-> AtomicStart]
  /\ obs = [saved |-> {store[RaceHub]}]
  /\ probe = [op |-> "none", hub_id |-> NoHub, record |-> Null]

\* The handler's 401 branch: const tokens = await getTokens(hub_id)
AtomicRead(i) ==
  /\ i # Callback
  /\ req[i].pc = "start"
  /\ \E ioFails \in IoChoices :
       LET tokens == GetTokens(store, RaceHub, now, ioFails) IN
       req' = [req EXCEPT ![i] =
                 IF tokens # Null /\ tokens.refreshToken # 0
                   THEN [@ EXCEPT !.pc = "fetch", !.hub_id = RaceHub,
                                  !.refreshToken = tokens.refreshToken]
                   ELSE [@ EXCEPT !.pc = "done"]]
  /\ UNCHANGED <<env, store, now, ticks, issued, obs, probe>>

\* refreshAccessToken up to newTokenData
AtomicFetch(i) ==
  /\ i # Callback
  /\ req[i].pc = "fetch"
  /\ \E rk \in {"ok", "noRefreshToken", "error"} :
       LET resp == ProviderResponse(rk, Owner(TokenToUse(req[i].refreshToken)), issued + 1) IN
       /\ issued' = IF resp.ok THEN issued + 1 ELSE issued
       /\ req' = [req EXCEPT ![i] =
                    IF resp.ok
                      THEN [@ EXCEPT !.pc = "save",
                              !.input =
                                 TokenInput(resp.access_token,
                                            Or(resp.refresh_token,
                                               TokenToUse(req[i].refreshToken)),
                                            now + resp.expires_in * 1000)]
                      ELSE [@ EXCEPT !.pc = "done"]]
  /\ UNCHANGED <<env, store, now, ticks, obs, probe>>

\* oauth-callback: exchangeForTokens for portal 111, up to saveTokens
AtomicExchange ==
  /\ req[Callback].pc = "start"
  /\ \E rk \in {"ok", "error"} :
       LET resp == ProviderResponse(rk, RaceHub.id, issued + 1) IN
       /\ issued' = IF resp.ok THEN issued + 1 ELSE issued
       /\ req' = [req EXCEPT ![Callback] =
                    IF resp.ok
                      THEN [@ EXCEPT !.pc = "save", !.hub_id = resp.hub_id,
                                     !.input = ExchangedInput(resp)]
                      ELSE [@ EXCEPT !.pc = "done"]]
  /\ UNCHANGED <<env, store, now, ticks, obs, probe>>

\* saveTokens up to its await: tokenData is built, the Map store sets it
AtomicSaveBegin(i) ==
  /\ req[i].pc = "save"
  /\ LET r == SaveTokens(store, req[i].hub_id, req[i].input, now, FALSE) IN
     /\ obs' = [obs EXCEPT !.saved = @ \cup {r.record}]
     /\ IF env.backend = "map"
          THEN /\ store' = r.store
               /\ req' = [req EXCEPT ![i] = [@ EXCEPT !.pc = "done", !.tokenData = r.record]]
          ELSE /\ store' = store
               /\ req' = [req EXCEPT ![i] = [@ EXCEPT !.pc = "set", !.tokenData = r.record]]
  /\ UNCHANGED <<env, now, ticks, issued, probe>>

\* saveToRedis: client.set(`tokens:${hub_id}`, JSON.stringify(tokenData)) lands or rejects
AtomicSaveLand(i) ==
  /\ req[i].pc = "set"
  /\ \E ioFails \in IoChoices :
       store' = BackendWrite(store, req[i].hub_id, req[i].tokenData, ioFails)
  /\ req' = [req EXCEPT ![i] = [@ EXCEPT !.pc = "done"]]
  /\ UNCHANGED <<env, now, ticks, issued, obs, probe>>

\* A getTokens call of any other invocation, with the id as a string or a number
AtomicGet ==
  /\ \E h \in {RaceHub, NumHub(RaceHub.id)}, ioFails \in IoChoices :
       probe' = [op |-> "get", hub_id |-> h, record |-> GetTokens(store, h, now, ioFails)]
  /\ UNCHANGED <<env, store, now, ticks, issued, req, obs>>

NextAtomic ==
  \/ RaceTick
  \/ \E i \in Writers : AtomicRead(i)
  \/ \E i \in Writers : AtomicFetch(i)
  \/ AtomicExchange
  \/ \E i \in Writers : AtomicSaveBegin(i)
  \/ \E i \in Writers : AtomicSaveLand(i)
  \/ AtomicGet

SpecAtomic == InitAtomic /\ [][NextAtomic]_vars

\* rec has the three token fields of one saved record
FromOneSave(rec) ==
  \E s \in obs.saved : /\ rec.accessToken = s.accessToken
                        /\ rec.refreshToken = s.refreshToken
                        /\ rec.expiresAt = s.expiresAt

\* C32: whatever the interleaving of refreshes and callback saves for one
\* portal, a record returned by getTokens has the accessToken, refreshToken
\* and expiresAt of one single saveTokens call, never fields of two saves
C32_NoMixedRecord ==
  (probe.op = "get" /\ probe.record # Null) => FromOneSave(probe.record)

\* Three saves raced, and getTokens returns the record of one that was not
\* issued its tokens last: a later save landed before it
C32_Witness ==
  /\ probe.op = "get"
  /\ probe.record # Null
  /\ Cardinality(obs.saved) = 4
  /\ \A i \in Writers : req[i].pc = "done"
  /\ probe.record.accessToken # AccessTok(RaceHub.id, 0)
  /\ probe.record.accessToken # AccessTok(RaceHub.id, 3)

-----------------------------------------------------------------------------
(* create-statement-record (third handler of update-statement-record.js):  *)
(* getAccessToken once, then three makeHubSpotRequest calls that are each  *)
(* given the handler's accessToken.  req.accessToken is the handler's      *)
(* variable, req.param the accessToken parameter of the running            *)
(* makeHubSpotRequest.  obs.log lists the invocation's outside calls:      *)
(* "send" and "resend" (val: the token of the first attempt and of the     *)
(* retry), "proactive" and "refreshed" (val: the token issued to           *)
(* getAccessToken and to the 401 branch of makeHubSpotRequest).            *)

StatementCalls == <<"create", "labels", "associate">>

CreateIdle ==
  [pc |-> "idle", step |-> 0, hub_id |-> RaceHub, accessToken |-> 0, param |-> 0]

CreateDone(r) == [CreateIdle EXCEPT !.pc = "done", !.step = r.step]

InitCreate ==
  /\ env \in AtomicConfigs
  /\ store \in RaceStores
  /\ now = StartTime
  /\ ticks = 0
  /\ issued = 0
  /\ req = CreateIdle
  /\ obs = [log |-> <<>>, result |-> NoResult]
  /\ probe = FirstProbe

\* The handler's return after makeHubSpotRequest returned `status` for a step
StepFailure(step, status) ==
  CASE step = 1 -> Result(status, "Failed to create statement record")
    [] step = 2 -> Result(500, "Association type not found")
    [] OTHER -> Result(status, "Failed to associate record")

\* The handler after makeHubSpotRequest returned: the next request is given
\* the handler's accessToken again
AfterRequest(r, status) ==
  IF status # 200 THEN [req |-> CreateDone(r), result |-> StepFailure(r.step, status)]
  ELSE IF r.step = Len(StatementCalls)
    THEN [req |-> CreateDone(r),
          result |-> Result(200, "Statement record created and associated successfully")]
  ELSE [req |-> [r EXCEPT !.pc = "call", !.step = @ + 1, !.param = r.accessToken],
        result |-> NoResult]

\* let accessToken = await getAccessToken(hub_id)
BeginCreate ==
  /\ req.pc = "idle"
  /\ \E rk \in RespKinds, ioGet \in IoChoices, ioSet \in IoChoices :
       LET d == GetAccessToken(GetTokens(store, req.hub_id, now, ioGet), now)
           resp == ProviderResponse(rk, Owner(TokenToUse(d.refreshToken)), issued + 1)
           r == RefreshAccessTokenChecked(store, req.hub_id, d.refreshToken, resp, now, ioSet)
           refreshed == d.next = "refresh" /\ r.error = "none"
           token == IF d.next = "use" THEN d.token
                    ELSE IF refreshed THEN r.tokens.accessToken
                    ELSE EnvFallback
       IN
       /\ (d.next = "refresh" /\ resp.ok) => issued < MaxIssued
       /\ issued' = IF d.next = "refresh" /\ r.called /\ resp.ok THEN issued + 1 ELSE issued
       /\ store' = IF d.next = "refresh" THEN r.store ELSE store
       /\ obs' = [obs EXCEPT
                    !.log = IF refreshed THEN <<Event("proactive", token)>> ELSE <<>>,
                    !.result = IF token = 0 THEN NeedsAuth ELSE NoResult]
       /\ req' = IF token = 0 THEN CreateDone(req)
                 ELSE [req EXCEPT !.pc = "call", !.step = 1, !.accessToken = token,
                                  !.param = token]
  /\ UNCHANGED <<env, now, ticks, probe>>

\* makeHubSpotRequest: the first fetch, with the accessToken it was given
CreateCall ==
  /\ req.pc = "call"
  /\ \E status \in Statuses :
       LET a == AfterRequest(req, status) IN
       /\ obs' = [obs EXCEPT !.log = Append(@, Event("send", req.param)),
                             !.result = IF status = 401 THEN @ ELSE a.result]
       /\ req' = IF status = 401 THEN [req EXCEPT !.pc = "refresh"] ELSE a.req
  /\ UNCHANGED <<env, store, now, ticks, issued, probe>>

\* makeHubSpotRequest: the 401 branch up to the retry; without a refresh
\* token, or when the refresh throws, the 401 response is returned
CreateRefresh ==
  /\ req.pc = "refresh"
  /\ \E rk \in RespKinds, ioGet \in IoChoices, ioSet \in IoChoices :
       LET tokens == GetTokens(store, req.hub_id, now, ioGet)
           has == tokens # Null /\ tokens.refreshToken # 0
           refreshToken == IF has THEN tokens.refreshToken ELSE 0
           resp == ProviderResponse(rk, Owner(TokenToUse(refreshToken)), issued + 1)
           r == RefreshAccessTokenChecked(store, req.hub_id, refreshToken, resp, now, ioSet)
           a == AfterRequest(req, 401)
       IN
       /\ (has /\ resp.ok) => issued < MaxIssued
       /\ issued' = IF has /\ r.called /\ resp.ok THEN issued + 1 ELSE issued
       /\ IF has /\ r.error = "none"
            THEN /\ store' = r.store
                 /\ req' = [req EXCEPT !.pc = "retry", !.param = r.tokens.accessToken]
                 /\ obs' = [obs EXCEPT
                              !.log = Append(@, Event("refreshed", r.tokens.accessToken))]
            ELSE /\ store' = store
                 /\ req' = a.req
                 /\ obs' = [obs EXCEPT !.result = a.result]
  /\ UNCHANGED <<env, now, ticks, probe>>

\* makeHubSpotRequest: the retry with newTokens.accessToken
CreateRetry ==
  /\ req.pc = "retry"
  /\ \E status \in Statuses :
       LET a == AfterRequest(req, status) IN
       /\ obs' = [obs EXCEPT !.log = Append(@, Event("resend", req.param)),
                             !.result = a.result]
       /\ req' = a.req
  /\ UNCHANGED <<env, store, now, ticks, issued, probe>>

NextCreate ==
  \/ Tick
  \/ BeginCreate
  \/ CreateCall
  \/ CreateRefresh
  \/ CreateRetry

SpecCreate == InitCreate /\ [][NextCreate]_vars

\* C33: once a 401-triggered refresh has succeeded inside makeHubSpotRequest,
\* the first attempt of every later HubSpot API call of the invocation
\* carries the access token of the latest such refresh
C33_LaterCallsUseRefreshedToken ==
  \A i \in DOMAIN obs.log : \A j \in DOMAIN obs.log :
    (/\ i < j
     /\ obs.log[i].ev = "refreshed"
     /\ obs.log[j].ev = "send"
     /\ \A k \in (i + 1)..(j - 1) : obs.log[k].ev # "refreshed")
    => obs.log[j].val = obs.log[i].val

-----------------------------------------------------------------------------
(* getAccessToken up to its decision, called again and again while the     *)
(* process lives, with HUBSPOT_ACCESS_TOKEN / HUBSPOT_REFRESH_TOKEN set.   *)
(* probe is the last call: the record getTokens returned and the branch    *)
(* getAccessToken took.                                                    *)

LoadConfigs == {c \in EnvConfigs : c.accessToken # 0}

LoadHubs == {NoHub, StrHub(111), StrHub(EnvOwner), NumHub(EnvOwner)}

\* Between two calls the clock advances by minutes or by the default lifetime
LoadSteps == TickSteps \cup {SixHours}

InitLoad ==
  /\ env \in LoadConfigs
  /\ store \in RaceStores \cup {[h \in Hubs |-> Null]}
  /\ now = StartTime
  /\ ticks = 0
  /\ issued = 0
  /\ req = IdleReq
  /\ obs = FreshObs
  /\ probe = [op |-> "none", n |-> 0, hub_id |-> NoHub, at |-> 0, record |-> Null,
              next |-> "none"]

LoadTick ==
  /\ ticks < MaxTicks
  /\ \E d \in LoadSteps : now' = now + d
  /\ ticks' = ticks + 1
  /\ UNCHANGED <<env, store, issued, req, obs, probe>>

\* const tokens = await getTokens(hub_id); if (tokens && tokens.accessToken) { if (needsRefresh(tokens)) ...
LoadTokens ==
  /\ probe.n < MaxCalls
  /\ \E h \in LoadHubs, ioFails \in IoChoices :
       LET tokens == GetTokens(store, h, now, ioFails) IN
       probe' = [op |-> "load", n |-> probe.n + 1, hub_id |-> h, at |-> now,
                 record |-> tokens, next |-> GetAccessToken(tokens, now).next]
  /\ UNCHANGED <<env, store, now, ticks, issued, req, obs>>

NextLoad ==
  \/ LoadTick
  \/ LoadTokens

SpecLoad == InitLoad /\ [][NextLoad]_vars

\* The record was built from the environment variables, not read from the store
ServedFromEnv(rec) ==
  /\ rec # Null
  /\ rec.accessToken = env.accessToken
  /\ rec.updatedAt = probe.at

\* C34: without HUBSPOT_TOKEN_EXPIRES_AT a record served from the environment
\* has expiresAt = load time + 6 hours at every load, needsRefresh is false
\* for it and getAccessToken does not take its refresh branch
C34_EnvRecordNeverRefreshed ==
  (probe.op = "load" /\ ServedFromEnv(probe.record) /\ env.expiresAt = 0) =>
    /\ probe.record.expiresAt = probe.at + SixHours
    /\ ~NeedsRefresh(probe.record, probe.at)
    /\ probe.next = "use"

\* The second load, more than six hours after the process started, is served
\* from the environment and still counts as fresh
C34_Witness ==
  /\ probe.op = "load"
  /\ probe.n = 2
  /\ probe.at >= StartTime + SixHours
  /\ ServedFromEnv(probe.record)
  /\ env.expiresAt = 0
  /\ probe.next = "use"

-----------------------------------------------------------------------------
(* The refresh token after a refresh, under SpecRefresh                    *)

\* The last call was a refreshAccessToken that returned
RefreshReturned == probe.op = "refresh" /\ probe.error = "none"

\* saveTokens reached the backend and the backend took the record
SaveLanded == env.backend \in {"map", "redis"} /\ ~probe.io

\* tokenToUse of the last call: the refresh token sent to the token endpoint
SentRefreshToken == Or(probe.input.refreshToken, env.refreshToken)

\* C35: after a successful refresh whose answer carries no refresh_token, the
\* returned record and the saved record keep the refresh token that was sent,
\* and no successful refresh leaves the portal's stored refresh token empty
C35_RefreshTokenKept ==
  RefreshReturned =>
    /\ probe.input.refresh_token = 0 =>
         /\ SentRefreshToken # 0
         /\ probe.record.refreshToken = SentRefreshToken
         /\ SaveLanded => store[probe.hub_id].refreshToken = SentRefreshToken
    /\ store[probe.hub_id] # Null => store[probe.hub_id].refreshToken # 0

\* Portal 111 was refreshed with its stored refresh token, the answer had no
\* refresh_token, and the store holds the new access token with the old
\* refresh token
C35_Witness ==
  /\ RefreshReturned
  /\ probe.input.refresh_token = 0
  /\ probe.hub_id = RaceHub
  /\ probe.input.refreshToken = RefreshTok(111, 0)
  /\ store[RaceHub].accessToken = AccessTok(111, 1)
  /\ store[RaceHub].refreshToken = RefreshTok(111, 0)

-----------------------------------------------------------------------------
(* The proxy's 400 for a missing X-Requested-Path header, under Spec       *)

MissingPath == Result(400, "Missing x-requested-path header")

\* C36: a proxy request rejected with 400 because X-Requested-Path is missing
\* has made no call to the OAuth token endpoint and has saved nothing to the
\* token store, whatever the state of the portal's stored token
C36_RejectionHasNoEffect ==
  (req.pc = "done" /\ req.kind = "proxy" /\ obs.result = MissingPath) =>
    /\ obs.nRefresh = 0
    /\ \A i \in DOMAIN obs.log : obs.log[i].ev \notin {"refresh", "save"}

-----------------------------------------------------------------------------
(* Termination of the proxy handler.  Every step of the handler ends at an *)
(* await of getTokens, of saveTokens or of a fetch; each of them           *)
(* eventually returns or throws, so a step that can be taken is taken:     *)
(* weak fairness on each step.  Nothing is assumed about new requests      *)
(* arriving or about the clock.                                            *)

NextProxy ==
  \/ Tick
  \/ BeginProxy
  \/ Acquire
  \/ ProactiveRefresh
  \/ Call
  \/ Refresh401
  \/ Retry

SpecProxyLive ==
  /\ Init
  /\ [][NextProxy]_vars
  /\ WF_vars(Acquire)
  /\ WF_vars(ProactiveRefresh)
  /\ WF_vars(Call)
  /\ WF_vars(Refresh401)
  /\ WF_vars(Retry)

\* The proxy handler is running
InFlight == req.kind = "proxy" /\ req.pc \notin {"idle", "done"}

\* The proxy handler has returned an HTTP response
Responded == req.kind = "proxy" /\ req.pc = "done" /\ obs.result.statusCode # 0

\* C37: every invocation of the proxy handler ends with an HTTP response,
\* after at most two calls of the HubSpot API and two of the token endpoint,
\* whatever the provider answers
C37_ProxyTerminates ==
  /\ [](obs.nApi <= 2 /\ obs.nRefresh <= 2)
  /\ InFlight ~> Responded

\* The longest invocation: a refused proactive refresh, the environment's
\* token, a 401, a refresh, a retry, and the handler has answered
C37_Witness ==
  /\ Responded
  /\ obs.nApi = 2
  /\ obs.nRefresh = 2
  /\ Len(obs.log) >= 4
  /\ obs.log[Len(obs.log)].ev = "retry"

====
